---------------------------- MODULE Spec2Model ----------------------------
(***************************************************************************)
(* A model of the amor-ui widget library: the local state of the widgets   *)
(* (Counter, Spinner, NumberInput, CurrencyInput), their event handlers,   *)
(* the style-token lookups made while rendering, and the pure layout       *)
(* helpers (Breadcrumb.getDisplayedItems, Pagination.buildRange).          *)
(*                                                                         *)
(* Every widget is independent of the others, so each one has its own      *)
(* specification (SpecCounter, SpecRender, ...) over its own variables;    *)
(* the variables of the other widgets stay at their initial value.         *)
(***************************************************************************)
EXTENDS Integers, Sequences, FiniteSets, TLC

VARIABLES
  cProps,     \* Counter: the props of the instance
  cState,     \* Counter: useControllableState's internal state
  cCalls,     \* Counter: the onChange calls made by the last event
  cEvent,     \* Counter: the last event
  cPrev,      \* Counter: the count shown when the last event happened
  rWidget,    \* render: the widget rendered last ("none" before any render)
  rProps,     \* render: the enumerated props it was rendered with
  rOut,       \* render: what the render produced
  injectedBarsKeyframes, \* Spinner: the module-level flag
  headStyles, \* Spinner: the <style data-spinner-bars> elements in <head>
  hasDocument,\* Spinner: typeof document !== "undefined" (false on a server)
  sProps,     \* Spinner: per instance, the props of its last render
  sMarkup,    \* Spinner: per instance, the markup of its last render
  bItems,     \* Breadcrumb: the items prop
  bMaxItems,  \* Breadcrumb: the maxItems prop
  bTailCount, \* Breadcrumb: the tailCount prop
  bMenuOpen,  \* Breadcrumb: useState menuOpen
  bLayout,    \* Breadcrumb: the memoized {head, middle, tail}
  bEntries,   \* Breadcrumb: the <li> entries rendered, in document order
  bMenu,      \* Breadcrumb: the entries of the collapsed "..." menu
  pgArgs,     \* Pagination: the arguments of the last buildRange call
  pgItems,    \* Pagination: the items buildRange returned
  nProps,     \* NumberInput: the props of the instance
  nFocused,   \* NumberInput: useState focused
  nInternal,  \* NumberInput: useState internalValue
  nDisplay,   \* NumberInput: useState displayValue
  nCalls,     \* NumberInput: the onChange calls made by the last event
  nEvent,     \* NumberInput: the last event and the number it emitted from
  uProps,     \* CurrencyInput: the props of the instance
  uFocused,   \* CurrencyInput: useState focused
  uInternal,  \* CurrencyInput: useState internalValue
  uDisplay,   \* CurrencyInput: useState displayValue
  uCalls,     \* CurrencyInput: the onChange calls made by the last event
  uEvent,     \* CurrencyInput: the last event
  gProps,     \* Pagination: the props of the last render
  gCalls,     \* Pagination: the callbacks invoked by the last event
  gEvent,     \* Pagination: the last event
  fProps,     \* FileInput: the props of the instance
  fFiles,     \* FileInput: useState files (uncontrolled)
  fEvent,     \* FileInput: the last event
  vArgs,      \* FileInput.validateFiles: incoming, maxSize, validate
  vResult,    \* FileInput.validateFiles: what it returned and whom it validated
  lProps,     \* Select: the props of the last render
  lMountSet,  \* Select: whether open was supplied at the mount
  lOpenLocal, \* Select: useState isOpenLocal
  lActive,    \* Select: useState activeIndex
  lValue,     \* Select: useState internalValue (0 is undefined)
  lShown,     \* Select: whether the last render showed the dropdown
  lOpenCalls, \* Select: the onOpenChange calls made by the last event
  lEvent,     \* Select: the last event
  dProps,     \* DateRangeInput: the props of the last render
  dOpen,      \* DateRangeInput: useState open
  dFocusDay,  \* DateRangeInput: useState focusDay
  dCalls,     \* DateRangeInput: the ranges onChange received in the last event
  dEvent      \* DateRangeInput: the last event

counterVars == <<cProps, cState, cCalls, cEvent, cPrev>>

renderVars == <<rWidget, rProps, rOut>>

spinnerVars ==
  <<injectedBarsKeyframes, headStyles, hasDocument, sProps, sMarkup>>

crumbVars ==
  <<bItems, bMaxItems, bTailCount, bMenuOpen, bLayout, bEntries, bMenu>>

pageVars == <<pgArgs, pgItems>>

numberVars == <<nProps, nFocused, nInternal, nDisplay, nCalls, nEvent>>

currencyVars == <<uProps, uFocused, uInternal, uDisplay, uCalls, uEvent>>

paginationVars == <<gProps, gCalls, gEvent>>

fileVars == <<fProps, fFiles, fEvent, vArgs, vResult>>

selectVars == <<lProps, lMountSet, lOpenLocal, lActive, lValue, lShown, lOpenCalls, lEvent>>

dateVars == <<dProps, dOpen, dFocusDay, dCalls, dEvent>>

vars ==
  <<counterVars, renderVars, spinnerVars, crumbVars, pageVars, numberVars,
    currencyVars,
                        paginationVars,
                        fileVars,
                        selectVars,
                        dateVars>>

(***************************************************************************)
(* The widgets do not interact: a specification moves the variables of one *)
(* widget and leaves the others as these predicates set them.              *)
(***************************************************************************)
IdleCounter ==
  /\ cProps = [controlled |-> FALSE, value |-> 0, defaultValue |-> 0,
               min |-> 0, max |-> 0, step |-> 1, disabled |-> FALSE]
  /\ cState = 0
  /\ cCalls = <<>>
  /\ cEvent = "none"
  /\ cPrev = 0

IdleRender ==
  /\ rWidget = "none"
  /\ rProps = [size |-> "md", variant |-> "neutral", color |-> "neutral"]
  /\ rOut = [threw |-> FALSE, sizeCls |-> "undefined", variantKey |-> "undefined"]

\* The Spinner instances on the page.
NumSpinners == 2

SpinnerIds == 1..NumSpinners

NotRendered == [type |-> "none", cls |-> "none", variant |-> "none"]

IdleSpinner ==
  /\ injectedBarsKeyframes = FALSE
  /\ headStyles = 0
  /\ hasDocument = TRUE
  /\ sProps = [i \in SpinnerIds |-> NotRendered]
  /\ sMarkup = [i \in SpinnerIds |-> NotRendered]

NoLayout == [head |-> <<>>, middle |-> <<>>, tail |-> <<>>]

IdleCrumb ==
  /\ bItems = <<>>
  /\ bMaxItems = 5
  /\ bTailCount = 2
  /\ bMenuOpen = FALSE
  /\ bLayout = NoLayout
  /\ bEntries = <<>>
  /\ bMenu = <<>>

IdlePage ==
  /\ pgArgs = [page |-> 1, totalPages |-> 1, siblingCount |-> 1,
               boundaryCount |-> 1]
  /\ pgItems = <<>>

IdleNumber ==
  /\ nProps = [ min |-> -1000000000, max |-> 1000000000, step |-> 100,
                precision |-> 0, controlled |-> FALSE,
                value |-> [kind |-> "number", n |-> 0, s |-> <<>>],
                defaultValue |-> 0, disabled |-> FALSE, readOnly |-> FALSE ]
  /\ nFocused = FALSE
  /\ nInternal = 0
  /\ nDisplay = <<>>
  /\ nCalls = <<>>
  /\ nEvent = [name |-> "none", raw |-> 0]

IdleCurrency ==
  /\ uProps = [ min |-> 0, max |-> 1000000000,
                value |-> [kind |-> "undefined", n |-> 0, s |-> <<>>],
                disabled |-> FALSE, readOnly |-> FALSE ]
  /\ uFocused = FALSE
  /\ uInternal = 0
  /\ uDisplay = <<>>
  /\ uCalls = <<>>
  /\ uEvent = "none"

OtherThan_currencyVars ==
  <<counterVars,
    renderVars,
    spinnerVars,
    crumbVars,
    pageVars,
    numberVars,
    paginationVars,
    fileVars,
    selectVars,
    dateVars>>

OtherThan_paginationVars ==
  <<counterVars,
    renderVars,
    spinnerVars,
    crumbVars,
    pageVars,
    numberVars,
    currencyVars,
    fileVars,
    selectVars,
    dateVars>>

IdlePagination ==
  /\ gProps = [ page |-> 1, pageSize |-> 1, total |-> 0, disabled |-> FALSE,
                showPageSize |-> FALSE ]
  /\ gCalls = <<>>
  /\ gEvent = "none"

OtherThan_fileVars ==
  <<counterVars,
    renderVars,
    spinnerVars,
    crumbVars,
    pageVars,
    numberVars,
    currencyVars,
    paginationVars,
    selectVars,
    dateVars>>

IdleFile ==
  /\ fProps = [ multiple |-> TRUE, maxFiles |-> [set |-> FALSE, n |-> 0],
                maxSize |-> [set |-> FALSE, n |-> 0], validate |-> FALSE,
                defaultValue |-> <<>>, disabled |-> FALSE, readOnly |-> FALSE,
                clearable |-> TRUE ]
  /\ fFiles = <<>>
  /\ fEvent = [name |-> "none", offered |-> 0]
  /\ vArgs = [ incoming |-> <<>>, maxSize |-> [set |-> FALSE, n |-> 0],
               validate |-> FALSE ]
  /\ vResult = [ accepted |-> <<>>, rejected |-> <<>>, reasons |-> <<>>,
                 validated |-> <<>> ]

OtherThan_selectVars ==
  <<counterVars,
    renderVars,
    spinnerVars,
    crumbVars,
    pageVars,
    numberVars,
    currencyVars,
    paginationVars,
    fileVars,
    dateVars>>

IdleSelect ==
  /\ lProps = [ open |-> [set |-> FALSE, v |-> FALSE], disabled |-> FALSE,
                options |-> <<>> ]
  /\ lMountSet = FALSE
  /\ lOpenLocal = FALSE
  /\ lActive = -1
  /\ lValue = 0
  /\ lShown = FALSE
  /\ lOpenCalls = <<>>
  /\ lEvent = [name |-> "none", key |-> "none"]

OtherThan_dateVars ==
  <<counterVars,
    renderVars,
    spinnerVars,
    crumbVars,
    pageVars,
    numberVars,
    currencyVars,
    paginationVars,
    fileVars,
    selectVars>>

IdleDate ==
  /\ dProps = [ min |-> [set |-> FALSE, day |-> 0, ms |-> 0],
                max |-> [set |-> FALSE, day |-> 0, ms |-> 0],
                disabledDates |-> {}, disabled |-> FALSE,
                value |-> [ startDate |-> [set |-> FALSE, day |-> 0, ms |-> 0],
                            endDate |-> [set |-> FALSE, day |-> 0, ms |-> 0] ] ]
  /\ dOpen = FALSE
  /\ dFocusDay = [set |-> FALSE, day |-> 0, ms |-> 0]
  /\ dCalls = <<>>
  /\ dEvent = "none"

(* ------------------------------ helpers -------------------------------- *)

\* Math.min / Math.max on two numbers.
MathMin(a, b) == IF a <= b THEN a ELSE b

MathMax(a, b) == IF a >= b THEN a ELSE b

(***************************************************************************)
(*              Rendering: the lookups of enumerated props                 *)
(***************************************************************************)

\* What a lookup of a missing key yields, and what no output is written as.
Undefined == "undefined"

\* obj[key] on one of the style-token tables.
Lookup(table, key) == IF key \in DOMAIN table THEN table[key] ELSE Undefined

BadgeSizes ==
  [ xs |-> "px-1.5 py-0.5 text-xs", sm |-> "px-2 py-0.5 text-xs",
    md |-> "px-2.5 py-1 text-sm", lg |-> "px-3 py-1.5 text-base",
    xl |-> "px-4 py-2 text-lg" ]

BadgeVariants ==
  { "primary", "secondary", "info", "success", "warning", "danger",
    "outline", "dot", "brand", "premium", "featured", "neutral" }

CounterSizeStyles ==
  [ sm |-> "h-8 text-sm rounded-md", md |-> "h-10 text-base rounded-lg",
    lg |-> "h-12 text-lg rounded-xl" ]

CounterVariants == { "outline", "ghost", "brand" }

PaginationSIZE_CLS == [ sm |-> "text-xs", md |-> "text-sm", lg |-> "text-base" ]

PaginationVariants ==
  { "subtle", "muted", "brand", "inverted", "glass", "pill" }

TagSizes ==
  [ xs |-> [px |-> "px-2 py-0.5", text |-> "text-[11px]"],
    sm |-> [px |-> "px-2.5 py-1", text |-> "text-xs"],
    md |-> [px |-> "px-3 py-1.5", text |-> "text-sm"],
    lg |-> [px |-> "px-3.5 py-2", text |-> "text-base"] ]

TagColors == { "brand", "neutral", "success", "warning", "danger", "info" }

TagVariants == { "solid", "soft", "outline", "glass" }

TooltipSIZES ==
  [ sm |-> [pad |-> "px-2 py-1", arrow |-> 6],
    md |-> [pad |-> "px-2.5 py-1.5", arrow |-> 7],
    lg |-> [pad |-> "px-3 py-2", arrow |-> 8] ]

TooltipVariants ==
  { "brand", "neutral", "success", "warning", "danger", "info", "glass" }

LinkSizeStyles == [ sm |-> "text-sm", md |-> "text-base", lg |-> "text-lg" ]

LinkVariants == { "brand", "neutral", "muted", "danger", "breadcrumb" }

SpinnerSizeStyles ==
  [ xs |-> "w-3 h-3", sm |-> "w-4 h-4", md |-> "w-6 h-6", lg |-> "w-8 h-8",
    xl |-> "w-12 h-12" ]

SpinnerVariants ==
  { "primary", "secondary", "success", "warning", "danger", "white",
    "current" }

NumberInputSizeMap ==
  [ xs |-> "px-9 py-1.5 text-sm rounded-lg",
    sm |-> "px-10 py-2 text-base rounded-lg",
    md |-> "px-12 py-2.5 text-base rounded-xl",
    lg |-> "px-14 py-3 text-lg rounded-xl",
    xl |-> "px-16 py-4 text-xl rounded-2xl" ]

\* A render that ran to its end: the size tokens put on the element and the
\* variant (and, for Tag, color) key whose tokens were put on it.
Rendered(sizeCls, variantKey) ==
  [threw |-> FALSE, sizeCls |-> sizeCls, variantKey |-> variantKey]

\* A render ended by a TypeError (a property read on undefined, a spread of
\* undefined).
Threw == [threw |-> TRUE, sizeCls |-> Undefined, variantKey |-> Undefined]

\* table[key] for a table of which only the keys are modelled.
KeyOrUndefined(keys, key) == IF key \in keys THEN key ELSE Undefined

\* const safeSize = sizes[size] ? size : "md"; sizes[safeSize]
RenderBadge(p) ==
  LET safeVariant == IF p.variant \in BadgeVariants THEN p.variant ELSE "info"
      safeSize == IF p.size \in DOMAIN BadgeSizes THEN p.size ELSE "md"
  IN  Rendered(BadgeSizes[safeSize], safeVariant)

\* const safeSize = sizeStyles[size]; variantStyles[variant]
RenderCounter(p) ==
  Rendered(Lookup(CounterSizeStyles, p.size),
           KeyOrUndefined(CounterVariants, p.variant))

\* const sizeCls = SIZE_CLS[size]; const variantBtn = VARIANT_BTN[variant]
RenderPagination(p) ==
  Rendered(Lookup(PaginationSIZE_CLS, p.size),
           KeyOrUndefined(PaginationVariants, p.variant))

\* const tone = palette[color][variant]; const SZ = sizes[size]; SZ.px
RenderTag(p) ==
  IF p.color \notin TagColors THEN Threw
  ELSE IF p.size \notin DOMAIN TagSizes THEN Threw
  ELSE Rendered(TagSizes[p.size].px, KeyOrUndefined(TagVariants, p.variant))

\* const arrowSize = SIZES[size].arrow
RenderTooltip(p) ==
  IF p.size \notin DOMAIN TooltipSIZES THEN Threw
  ELSE Rendered(TooltipSIZES[p.size].pad,
                KeyOrUndefined(TooltipVariants, p.variant))

\* [...base, sizeStyles[size], ..., ...variantStyles[variant], className]
RenderLink(p) ==
  IF p.variant \notin LinkVariants THEN Threw
  ELSE Rendered(Lookup(LinkSizeStyles, p.size), p.variant)

\* const safeSize = sizeStyles[size] ? size : "md"
RenderSpinnerTokens(p) ==
  LET safeSize == IF p.size \in DOMAIN SpinnerSizeStyles THEN p.size ELSE "md"
      safeVariant ==
        IF p.variant \in SpinnerVariants THEN p.variant ELSE "primary"
  IN  Rendered(SpinnerSizeStyles[safeSize], safeVariant)

\* const s = sizeMap[size] ?? sizeMap.md; variant === "filled" ? .. : ..
RenderNumberInput(p) ==
  Rendered(IF p.size \in DOMAIN NumberInputSizeMap
             THEN NumberInputSizeMap[p.size] ELSE NumberInputSizeMap["md"],
           IF p.variant = "filled" THEN "filled" ELSE "outlined")

Widgets ==
  { "Badge", "Counter", "Pagination", "Tag", "Tooltip", "Link", "Spinner",
    "NumberInput" }

\* The sizes each widget's type declares, and the default of its size prop.
DeclaredSizes(w) ==
  CASE w = "Badge" -> DOMAIN BadgeSizes
    [] w = "Counter" -> DOMAIN CounterSizeStyles
    [] w = "Pagination" -> DOMAIN PaginationSIZE_CLS
    [] w = "Tag" -> DOMAIN TagSizes
    [] w = "Tooltip" -> DOMAIN TooltipSIZES
    [] w = "Link" -> DOMAIN LinkSizeStyles
    [] w = "Spinner" -> DOMAIN SpinnerSizeStyles
    [] w = "NumberInput" -> DOMAIN NumberInputSizeMap

DeclaredVariants(w) ==
  CASE w = "Badge" -> BadgeVariants
    [] w = "Counter" -> CounterVariants
    [] w = "Pagination" -> PaginationVariants
    [] w = "Tag" -> TagVariants
    [] w = "Tooltip" -> TooltipVariants
    [] w = "Link" -> LinkVariants
    [] w = "Spinner" -> SpinnerVariants
    [] w = "NumberInput" -> { "outlined", "filled" }

\* Only Tag takes a color prop.
DeclaredColors(w) == TagColors

DefaultSizeCls(w) ==
  CASE w = "Badge" -> BadgeSizes["md"]
    [] w = "Counter" -> CounterSizeStyles["md"]
    [] w = "Pagination" -> PaginationSIZE_CLS["md"]
    [] w = "Tag" -> TagSizes["md"].px
    [] w = "Tooltip" -> TooltipSIZES["md"].pad
    [] w = "Link" -> LinkSizeStyles["md"]
    [] w = "Spinner" -> SpinnerSizeStyles["md"]
    [] w = "NumberInput" -> NumberInputSizeMap["md"]

RenderWidget(w, p) ==
  CASE w = "Badge" -> RenderBadge(p)
    [] w = "Counter" -> RenderCounter(p)
    [] w = "Pagination" -> RenderPagination(p)
    [] w = "Tag" -> RenderTag(p)
    [] w = "Tooltip" -> RenderTooltip(p)
    [] w = "Link" -> RenderLink(p)
    [] w = "Spinner" -> RenderSpinnerTokens(p)
    [] w = "NumberInput" -> RenderNumberInput(p)

\* The values a caller passes: declared ones and ones outside every
\* declared set ("xxl", "bogus").
SizeInputs == { "xs", "sm", "md", "lg", "xl", "xxl" }

VariantInputs ==
  { "brand", "neutral", "outline", "info", "soft", "filled", "subtle",
    "primary", "bogus" }

ColorInputs == { "brand", "neutral", "bogus" }

PropInputs == [size : SizeInputs, variant : VariantInputs, color : ColorInputs]

\* One widget is rendered with the props given.
Render ==
  /\ \E w \in Widgets, p \in PropInputs :
       /\ (w # "Tag" => p.color = "neutral")
       /\ rWidget' = w
       /\ rProps' = p
       /\ rOut' = RenderWidget(w, p)
  /\ UNCHANGED <<counterVars, spinnerVars, crumbVars, pageVars, numberVars,
                 currencyVars,
                        paginationVars,
                        fileVars,
                        selectVars,
                        dateVars>>

InitRender ==
  IdleCounter /\ IdleRender /\ IdleSpinner /\ IdleCrumb /\ IdlePage /\ IdleNumber
  /\ IdleCurrency
  /\ IdlePagination
  /\ IdleFile
  /\ IdleSelect
  /\ IdleDate

NextRender == Render

SpecRender == InitRender /\ [][NextRender]_vars

\* The widget rendered last was given a size outside its declared sizes.
SizeMalformed == rWidget # "none" /\ rProps.size \notin DeclaredSizes(rWidget)

\* ... or some enumerated prop (size, variant, color) outside its set.
PropMalformed ==
  /\ rWidget # "none"
  /\ \/ rProps.size \notin DeclaredSizes(rWidget)
     \/ rProps.variant \notin DeclaredVariants(rWidget)
     \/ rWidget = "Tag" /\ rProps.color \notin DeclaredColors(rWidget)

\* C2: a size outside the widget's enumerated sizes falls back to the
\* widget's default size: the size tokens applied are those of "md", never
\* the result of an undefined lookup.
C2_InvalidSizeFallsBackToDefault ==
  SizeMalformed =>
    /\ ~rOut.threw
    /\ rOut.sizeCls = DefaultSizeCls(rWidget)

\* C3: rendering a widget with a malformed enumerated prop never raises an
\* error: the render completes.
C3_MalformedPropNeverThrows == PropMalformed => ~rOut.threw

(***************************************************************************)
(*                               Spinner                                   *)
(***************************************************************************)

\* ensureBarsKeyframes can append a style element without end only if the
\* flag fails to stop it: the model follows <head> up to MaxStyles elements.
MaxStyles == 3

SpinnerTypes == { "circle", "dots", "pulse", "bars" }

SpinnerPropInputs ==
  [ type : SpinnerTypes, cls : { "xs", "md", "xl", "xxl" },
    variant : { "primary", "white", "bogus" } ]

\* function ensureBarsKeyframes(): returns at once when the flag is set or
\* there is no document; else appends the style element and sets the flag.
ensureBarsKeyframesForgetsFlag ==
  IF injectedBarsKeyframes \/ ~hasDocument
    THEN UNCHANGED <<injectedBarsKeyframes, headStyles>>
    ELSE /\ headStyles' = headStyles + 1
         /\ UNCHANGED injectedBarsKeyframes

ensureBarsKeyframes ==
  IF injectedBarsKeyframes \/ ~hasDocument
    THEN UNCHANGED <<injectedBarsKeyframes, headStyles>>
    ELSE /\ headStyles' = headStyles + 1
         /\ injectedBarsKeyframes' = TRUE

\* const barHeight = safeSize === "xs" ? "h-3" : ... : "h-12"
barHeight(safeSize) ==
  CASE safeSize = "xs" -> "h-3"
    [] safeSize = "sm" -> "h-4"
    [] safeSize = "md" -> "h-6"
    [] safeSize = "lg" -> "h-8"
    [] OTHER -> "h-12"

\* The element a Spinner returns: its type, the size class on it (the bar
\* height for bars) and the variant whose tokens it carries.
SpinnerMarkup(p) ==
  LET safeSize == IF p.cls \in DOMAIN SpinnerSizeStyles THEN p.cls ELSE "md"
      safeVariant ==
        IF p.variant \in SpinnerVariants THEN p.variant ELSE "primary"
  IN  [ type |-> p.type,
        cls |-> IF p.type = "bars" THEN barHeight(safeSize)
                ELSE SpinnerSizeStyles[safeSize],
        variant |-> safeVariant ]

\* React renders Spinner instance i with props p.
RenderSpinner(i, p) ==
  /\ headStyles < MaxStyles
  /\ IF p.type = "bars" THEN ensureBarsKeyframes
     ELSE UNCHANGED <<injectedBarsKeyframes, headStyles>>
  /\ sProps' = [sProps EXCEPT ![i] = p]
  /\ sMarkup' = [sMarkup EXCEPT ![i] = SpinnerMarkup(p)]
  /\ UNCHANGED <<hasDocument, counterVars, renderVars, crumbVars, pageVars,
                 numberVars, currencyVars,
                        paginationVars,
                        fileVars,
                        selectVars,
                        dateVars>>

InitSpinner ==
  /\ IdleCounter
  /\ IdleRender
  /\ IdleCrumb
  /\ IdlePage
  /\ IdleNumber
  /\ IdleCurrency
  /\ IdlePagination
  /\ IdleFile
  /\ IdleSelect
  /\ IdleDate
  /\ injectedBarsKeyframes = FALSE     \* let injectedBarsKeyframes = false
  /\ headStyles = 0
  /\ hasDocument \in BOOLEAN
  /\ sProps = [i \in SpinnerIds |-> NotRendered]
  /\ sMarkup = [i \in SpinnerIds |-> NotRendered]

NextSpinner == \E i \in SpinnerIds, p \in SpinnerPropInputs : RenderSpinner(i, p)

SpecSpinner == InitSpinner /\ [][NextSpinner]_vars

MaxCrumbs == 5

MaxLimit == 5

\* An item is its place in the items prop (its identity) and its current
\* flag.
CrumbItem(i, cur) == [id |-> i, current |-> cur]

CrumbLists ==
  UNION { { [i \in 1..n |-> CrumbItem(i, f[i])] : f \in [1..n -> BOOLEAN] }
          : n \in 0..MaxCrumbs }

\* Array.prototype.slice(start, end) on 0-based indices: a negative index
\* counts from the end, and both are clipped to 0..length.
SliceIndex(k, len) == IF k < 0 THEN MathMax(len + k, 0) ELSE MathMin(k, len)

Slice(arr, start, end) ==
  LET from == SliceIndex(start, Len(arr))
      to == SliceIndex(end, Len(arr))
  IN  [i \in 1..MathMax(to - from, 0) |-> arr[from + i]]

\* function getDisplayedItems(items, maxItems, tailCount)
getDisplayedItems(items, maxItems, tailCount) ==
  IF Len(items) <= maxItems
    THEN [head |-> items, middle |-> <<>>, tail |-> <<>>]
    ELSE LET head == <<items[1]>>
             tail == Slice(items, 0 - MathMax(2, tailCount), Len(items))
             middle == Slice(items, 1, Len(items) - Len(tail))
         IN  [head |-> head, middle |-> middle, tail |-> tail]

\* items.findIndex((i) => i.current), 0-based; -1 when there is none.
RECURSIVE FindCurrent(_, _)
FindCurrent(items, k) ==
  IF k >= Len(items) THEN 0 - 1
  ELSE IF items[k + 1].current THEN k
  ELSE FindCurrent(items, k + 1)

\* const currentIndex = idx >= 0 ? idx : items.length - 1
currentIndex(items) ==
  LET idx == FindCurrent(items, 0)
  IN  IF idx >= 0 THEN idx ELSE Len(items) - 1

\* An <li> of the list: the item shown, and whether its ItemContent carries
\* aria-current="page" (isCurrent(realIndex)).
Entry(item, realIndex, items) ==
  [id |-> item.id, ariaCurrent |-> (realIndex = currentIndex(items))]

\* The <ol>'s children: HEAD, then TAIL, then the "caso simple" block.
\* (The "..." button sits between HEAD and TAIL; its menu is bMenu.)
RenderedEntries(items, layout) ==
  LET head == layout.head
      middle == layout.middle
      tail == layout.tail
      headLis == [i \in 1..Len(head) |-> Entry(head[i], i - 1, items)]
      tailLis == [i \in 1..Len(tail) |->
                    Entry(tail[i], Len(items) - Len(tail) + (i - 1), items)]
      rest == Slice(items, 1, Len(items))
      plainLis ==
        IF Len(middle) = 0 /\ Len(head) > 0 /\ Len(items) > 1
          THEN [i \in 1..Len(rest) |-> Entry(rest[i], i, items)]
          ELSE <<>>
  IN  headLis \o tailLis \o plainLis

\* The menu's <div role="none"> children: one menuitem per middle item,
\* none of them with aria-current.
MenuEntries(layout) ==
  [i \in 1..Len(layout.middle) |->
     [id |-> layout.middle[i].id, ariaCurrent |-> FALSE]]

\* Breadcrumb's render: the layout is
\* getDisplayedItems(items, Math.max(3, maxItems), Math.max(2, tailCount)).
CrumbRender(items, maxItems, tailCount) ==
  LET layout ==
        getDisplayedItems(items, MathMax(3, maxItems), MathMax(2, tailCount))
  IN  /\ bLayout' = layout
      /\ bEntries' = RenderedEntries(items, layout)
      /\ bMenu' = MenuEntries(layout)

OtherThanCrumb ==
  <<counterVars, renderVars, spinnerVars, pageVars, numberVars,
                 currencyVars,
                        paginationVars,
                        fileVars,
                        selectVars,
                        dateVars>>

\* The component is rendered (mounted, or rendered again) with its props.
BreadcrumbRender ==
  /\ CrumbRender(bItems, bMaxItems, bTailCount)
  /\ UNCHANGED <<bItems, bMaxItems, bTailCount, bMenuOpen, OtherThanCrumb>>

\* The parent navigates one level deeper: items gains an item.
Navigate ==
  /\ Len(bItems) < MaxCrumbs
  /\ \E cur \in BOOLEAN :
       /\ bItems' = Append(bItems, CrumbItem(Len(bItems) + 1, cur))
       /\ CrumbRender(bItems', bMaxItems, bTailCount)
  /\ UNCHANGED <<bMaxItems, bTailCount, bMenuOpen, OtherThanCrumb>>

\* onClick={() => setMenuOpen((v) => !v)} of the "..." button, which exists
\* when middle.length > 0.
ToggleMenu ==
  /\ Len(bLayout.middle) > 0
  /\ bMenuOpen' = ~bMenuOpen
  /\ UNCHANGED <<bItems, bMaxItems, bTailCount, bLayout, bEntries, bMenu,
                 OtherThanCrumb>>

\* Escape on the button, a mousedown outside the menu, or a click on one
\* of the menu's items: setMenuOpen(false).
CloseMenu ==
  /\ Len(bLayout.middle) > 0
  /\ bMenuOpen
  /\ bMenuOpen' = FALSE
  /\ UNCHANGED <<bItems, bMaxItems, bTailCount, bLayout, bEntries, bMenu,
                 OtherThanCrumb>>

InitCrumb ==
  /\ IdleCounter
  /\ IdleRender
  /\ IdleSpinner
  /\ IdlePage
  /\ IdleNumber
  /\ IdleCurrency
  /\ IdlePagination
  /\ IdleFile
  /\ IdleSelect
  /\ IdleDate
  /\ bItems \in CrumbLists
  /\ bMaxItems \in 0..MaxLimit
  /\ bTailCount \in 0..MaxLimit
  /\ bMenuOpen = FALSE
  /\ bLayout = NoLayout
  /\ bEntries = <<>>
  /\ bMenu = <<>>

NextCrumb == BreadcrumbRender \/ Navigate \/ ToggleMenu \/ CloseMenu

SpecCrumb == InitCrumb /\ [][NextCrumb]_vars

\* The ids of a list of items or entries, in order.
Ids(list) == [i \in 1..Len(list) |-> list[i].id]

\* The breadcrumb has been rendered with its current props.
CrumbRendered ==
  bLayout = getDisplayedItems(bItems, MathMax(3, bMaxItems),
                              MathMax(2, bTailCount))
  /\ (bItems # <<>> => bEntries # <<>>)

\* The entries in reading order: head, the collapsed menu, then the rest.
ReadingOrder ==
  LET nHead == Len(bLayout.head)
  IN  SubSeq(bEntries, 1, nHead) \o bMenu
        \o SubSeq(bEntries, nHead + 1, Len(bEntries))

\* C8: Breadcrumb renders every item exactly once and in the original
\* order, counting the visible entries together with the entries of the
\* collapsed menu; so exactly one entry carries aria-current="page" when
\* items is non-empty.
C8_EveryItemRenderedOnce ==
  CrumbRendered =>
    /\ Ids(ReadingOrder) = Ids(bItems)
    /\ (bItems # <<>> =>
          Cardinality({i \in 1..Len(ReadingOrder) :
                         ReadingOrder[i].ariaCurrent}) = 1)

\* C9: when items.length exceeds max(3, maxItems) the middle is collapsed:
\* head is the first item, tail the last max(2, tailCount) items, middle
\* the items in between, the three are pairwise disjoint and
\* head ++ middle ++ tail = items; otherwise nothing is collapsed.
C9_CollapsePartitionsItems ==
  CrumbRendered =>
    LET n == Len(bItems)
        k == MathMax(2, bTailCount)
        idsOf(part) == {part[i].id : i \in 1..Len(part)}
    IN  IF n > MathMax(3, bMaxItems)
          THEN /\ bLayout.head = <<bItems[1]>>
               /\ Len(bLayout.tail) = k
               /\ bLayout.tail = SubSeq(bItems, n - Len(bLayout.tail) + 1, n)
               /\ bLayout.middle = SubSeq(bItems, 2, n - Len(bLayout.tail))
               /\ idsOf(bLayout.head) \cap idsOf(bLayout.middle) = {}
               /\ idsOf(bLayout.head) \cap idsOf(bLayout.tail) = {}
               /\ idsOf(bLayout.middle) \cap idsOf(bLayout.tail) = {}
               /\ bLayout.head \o bLayout.middle \o bLayout.tail = bItems
          ELSE /\ bLayout.middle = <<>>
               /\ bLayout.tail = <<>>
               /\ bMenu = <<>>

(***************************************************************************)
(*                        Pagination.buildRange                            *)
(***************************************************************************)

\* totalPages ranges over 1..MaxPages, page over 0..MaxPages + 1,
\* siblingCount over 0..MaxSibling, boundaryCount over 0..MaxBoundary.
MaxPages == 6

MaxSibling == 2

MaxBoundary == 3

\* type RangeItem = number | "ellipsis"
PageItem(n) == [kind |-> "page", n |-> n]

Ellipsis == [kind |-> "ellipsis", n |-> 0]

\* function range(start, end): [] when end < start, else start..end.
range(start, end) ==
  IF end < start THEN <<>>
  ELSE [i \in 1..(end - start + 1) |-> PageItem(start + (i - 1))]

\* items.includes(p)
Includes(items, p) == \E i \in 1..Len(items) : items[i] = p

\* for (const p of endPages) if (!items.includes(p)) items.push(p)
RECURSIVE PushMissing(_, _)
PushMissing(items, endPages) ==
  IF endPages = <<>> THEN items
  ELSE PushMissing(IF Includes(items, Head(endPages)) THEN items
                   ELSE Append(items, Head(endPages)),
                   Tail(endPages))

\* buildRange with left = page - siblingCount, not clamped to the pages
\* after the leading boundary.
buildRangeLeftUnclamped(page, totalPages, siblingCount, boundaryCount) ==
  LET startPages == range(1, MathMin(boundaryCount, totalPages))
      endPages == range(MathMax(totalPages - boundaryCount + 1,
                                boundaryCount + 1), totalPages)
      left == page - siblingCount
      right == MathMin(page + siblingCount, totalPages - boundaryCount)
      middlePages == range(left, right)
      items1 == startPages
      items2 == IF left > boundaryCount + 1
                  THEN Append(items1, Ellipsis) ELSE items1
      items3 == items2 \o middlePages
      items4 == IF right < totalPages - boundaryCount
                  THEN Append(items3, Ellipsis) ELSE items3
  IN  PushMissing(items4, endPages)

\* function buildRange(page, totalPages, siblingCount = 1, boundaryCount = 1)
buildRange(page, totalPages, siblingCount, boundaryCount) ==
  LET startPages == range(1, MathMin(boundaryCount, totalPages))
      endPages == range(MathMax(totalPages - boundaryCount + 1,
                                boundaryCount + 1), totalPages)
      left == MathMax(page - siblingCount, boundaryCount + 1)
      right == MathMin(page + siblingCount, totalPages - boundaryCount)
      middlePages == range(left, right)
      items1 == startPages
      items2 == IF left > boundaryCount + 1
                  THEN Append(items1, Ellipsis) ELSE items1
      items3 == items2 \o middlePages
      items4 == IF right < totalPages - boundaryCount
                  THEN Append(items3, Ellipsis) ELSE items3
  IN  PushMissing(items4, endPages)

RangeArgs ==
  [ page : 0..(MaxPages + 1), totalPages : 1..MaxPages,
    siblingCount : 0..MaxSibling, boundaryCount : 0..MaxBoundary ]

\* Pagination's render: const items = buildRange(page, totalPages,
\* siblingCount, boundaryCount).
BuildRange ==
  /\ \E a \in RangeArgs :
       /\ pgArgs' = a
       /\ pgItems' = buildRange(a.page, a.totalPages, a.siblingCount,
                                a.boundaryCount)
  /\ UNCHANGED <<counterVars, renderVars, spinnerVars, crumbVars, numberVars,
                 currencyVars,
                        paginationVars,
                        fileVars,
                        selectVars,
                        dateVars>>

InitRange ==
  /\ IdleCounter
  /\ IdleRender
  /\ IdleSpinner
  /\ IdleCrumb
  /\ IdleNumber
  /\ IdleCurrency
  /\ IdlePagination
  /\ IdleFile
  /\ IdleSelect
  /\ IdleDate
  /\ pgArgs \in RangeArgs
  /\ pgItems = buildRange(pgArgs.page, pgArgs.totalPages,
                          pgArgs.siblingCount, pgArgs.boundaryCount)

NextRange == BuildRange

SpecRange == InitRange /\ [][NextRange]_vars

\* The page numbers of a buildRange result, in order.
PageNumbers(items) ==
  LET pages == SelectSeq(items, LAMBDA it : it.kind = "page")
  IN  [i \in 1..Len(pages) |-> pages[i].n]

\* C10's precondition: totalPages >= 1, 1 <= page <= totalPages,
\* siblingCount >= 0, boundaryCount >= 1.
C10_Pre ==
  /\ pgArgs.totalPages >= 1
  /\ 1 <= pgArgs.page /\ pgArgs.page <= pgArgs.totalPages
  /\ pgArgs.siblingCount >= 0
  /\ pgArgs.boundaryCount >= 1

\* C10: under that precondition the page numbers buildRange returns are
\* strictly increasing, all lie in 1..totalPages, and include the first
\* boundaryCount pages, the last boundaryCount pages, the current page and
\* every existing page within siblingCount of it.
C10_BuildRangeSortedAndComplete ==
  C10_Pre =>
    LET ns == PageNumbers(pgItems)
        T == pgArgs.totalPages
        shown == {ns[i] : i \in 1..Len(ns)}
    IN  /\ \A i \in 1..(Len(ns) - 1) : ns[i] < ns[i + 1]
        /\ shown \subseteq 1..T
        /\ (1..MathMin(pgArgs.boundaryCount, T)) \subseteq shown
        /\ (MathMax(T - pgArgs.boundaryCount + 1, 1)..T) \subseteq shown
        /\ pgArgs.page \in shown
        /\ ((pgArgs.page - pgArgs.siblingCount)
              ..(pgArgs.page + pgArgs.siblingCount)) \cap (1..T)
             \subseteq shown

\* C10's case: the two boundaries overlap (2 * boundaryCount > totalPages)
\* and every page is listed once.
C10_Witness ==
  /\ C10_Pre
  /\ 2 * pgArgs.boundaryCount > pgArgs.totalPages
  /\ pgArgs.totalPages > 1
  /\ pgArgs.siblingCount > 0
  /\ Len(pgItems) = pgArgs.totalPages

(***************************************************************************)
(*          JavaScript numbers and strings, as the inputs use them         *)
(*                                                                         *)
(* A number is an integer count of hundredths (1.5 is 150), or one of      *)
(* Infinity, -Infinity, NaN.  A string is a sequence of one-character      *)
(* strings.                                                                *)
(***************************************************************************)

\* Hundredths per unit.
Scale == 100

PosInf == 1000000000

NegInf == -1000000000

NaN == 2000000000

\* Number.isFinite
IsFinite(x) == x \notin {PosInf, NegInf, NaN}

\* Math.min / Math.max on JavaScript numbers: NaN if either is NaN.
JsMin(a, b) == IF a = NaN \/ b = NaN THEN NaN ELSE IF a <= b THEN a ELSE b

JsMax(a, b) == IF a = NaN \/ b = NaN THEN NaN ELSE IF a >= b THEN a ELSE b

\* a + b
JsAdd(a, b) ==
  IF a = NaN \/ b = NaN THEN NaN
  ELSE IF ~IsFinite(a) THEN (IF ~IsFinite(b) /\ b # a THEN NaN ELSE a)
  ELSE IF ~IsFinite(b) THEN b
  ELSE a + b

\* -a
JsNeg(a) ==
  IF a = NaN THEN NaN
  ELSE IF a = PosInf THEN NegInf
  ELSE IF a = NegInf THEN PosInf
  ELSE 0 - a

\* a * k for a finite factor k > 0
JsTimes(a, k) == IF IsFinite(a) THEN a * k ELSE a

Abs(x) == IF x < 0 THEN 0 - x ELSE x

\* 10^d hundredths-per-step for toFixed(d): 100, 10, 1 for d = 0, 1, 2.
FixedUnit(d) == IF d <= 0 THEN Scale ELSE IF d = 1 THEN Scale \div 10 ELSE 1

\* Number(x.toFixed(d)): x rounded to d decimals, a tie going away from
\* zero; Infinity and NaN pass through ("Infinity", "NaN").  (A tie at one
\* decimal depends on the double nearest to x; the inputs use d = 0, where
\* a tie x.5 is exact, and d = 2.)
ToFixedNumber(x, d) ==
  IF ~IsFinite(x) THEN x
  ELSE LET unit == FixedUnit(d)
           a == Abs(x)
           q == a \div unit
           r == a % unit
           m == (IF 2 * r >= unit THEN q + 1 ELSE q) * unit
       IN  IF x < 0 THEN 0 - m ELSE m

DigitChars == <<"0", "1", "2", "3", "4", "5", "6", "7", "8", "9">>

DigitSet == {DigitChars[i] : i \in 1..10}

DigitVal(c) == (CHOOSE i \in 1..10 : DigitChars[i] = c) - 1

\* The decimal digits of n >= 0.
RECURSIVE DigitsOf(_)
DigitsOf(n) ==
  IF n < 10 THEN <<DigitChars[n + 1]>>
  ELSE DigitsOf(n \div 10) \o <<DigitChars[(n % 10) + 1]>>

\* String(x) for a number x.
NumToString(x) ==
  IF x = NaN THEN <<"N", "a", "N">>
  ELSE IF x = PosInf THEN <<"I", "n", "f", "i", "n", "i", "t", "y">>
  ELSE IF x = NegInf THEN <<"-", "I", "n", "f", "i", "n", "i", "t", "y">>
  ELSE LET a == Abs(x)
           frac == a % Scale
           fracDigits ==
             IF frac = 0 THEN <<>>
             ELSE IF frac % 10 = 0 THEN <<".", DigitChars[(frac \div 10) + 1]>>
             ELSE <<".", DigitChars[(frac \div 10) + 1],
                    DigitChars[(frac % 10) + 1]>>
       IN  (IF x < 0 THEN <<"-">> ELSE <<>>)
             \o DigitsOf(a \div Scale) \o fracDigits

\* The longest prefix of s made of digits, and what follows it.
RECURSIVE DigitPrefixLen(_, _)
DigitPrefixLen(s, k) ==
  IF k < Len(s) /\ s[k + 1] \in DigitSet THEN DigitPrefixLen(s, k + 1) ELSE k

TakeDigits(s) == SubSeq(s, 1, DigitPrefixLen(s, 0))

DropDigits(s) == SubSeq(s, DigitPrefixLen(s, 0) + 1, Len(s))

\* The value of a digit string ("" is 0).
RECURSIVE DigitsValue(_)
DigitsValue(ds) ==
  IF ds = <<>> THEN 0
  ELSE DigitsValue(SubSeq(ds, 1, Len(ds) - 1)) * 10 + DigitVal(ds[Len(ds)])

\* parseFloat(s) for s without whitespace, letters or exponent: an optional
\* "-", digits, an optional "." and digits; what follows is ignored; NaN
\* when there is no digit.  (Decimals after the second are dropped: the
\* strings typed here have at most two.)
ParseFloat(s) ==
  LET neg == s # <<>> /\ s[1] = "-"
      body == IF neg THEN Tail(s) ELSE s
      intDigits == TakeDigits(body)
      afterInt == DropDigits(body)
      fracDigits ==
        IF afterInt # <<>> /\ afterInt[1] = "."
          THEN TakeDigits(Tail(afterInt)) ELSE <<>>
      d1 == IF Len(fracDigits) >= 1 THEN DigitVal(fracDigits[1]) ELSE 0
      d2 == IF Len(fracDigits) >= 2 THEN DigitVal(fracDigits[2]) ELSE 0
      magnitude == DigitsValue(intDigits) * Scale + d1 * 10 + d2
  IN  IF intDigits = <<>> /\ fracDigits = <<>> THEN NaN
      ELSE IF neg THEN 0 - magnitude ELSE magnitude

\* raw.replace(/[^\d.,-]/g, "").replace(/,/g, ".")
CleanNumeric(raw) ==
  LET kept == SelectSeq(raw, LAMBDA c : c \in DigitSet \cup {".", ",", "-"})
  IN  [i \in 1..Len(kept) |-> IF kept[i] = "," THEN "." ELSE kept[i]]

\* A value prop: a number or a string.
NumberValue(n) == [kind |-> "number", n |-> n, s |-> <<>>]

StringValue(s) == [kind |-> "string", n |-> 0, s |-> s]

(***************************************************************************)
(*                               Counter                                   *)
(***************************************************************************)

\* Props and counts range over -MaxVal..MaxVal.
MaxVal == 2

\* Steps range over -1..MaxStep (a negative step is a legal number prop).
MaxStep == 2

\* A Counter whose min/max do not stop it (step < 0, min > max) counts
\* without end: the model follows it up to |count| = MaxCount.
MaxCount == 4

CounterRange == (0 - MaxVal)..MaxVal

CountCap == (0 - MaxCount)..MaxCount

CounterProps ==
  [ controlled   : BOOLEAN,        \* value !== undefined
    value        : CounterRange,   \* the value prop (read when controlled)
    defaultValue : CounterRange,
    min          : CounterRange,
    max          : CounterRange,
    step         : (0 - 1)..MaxStep,
    disabled     : BOOLEAN ]

\* useControllableState: current = isControlled ? value : state
count == IF cProps.controlled THEN cProps.value ELSE cState

\* inc's argument, with and (a slip) without the Math.min against max.
IncNextMissingClamp(n) == n + cProps.step

IncNext(n) == MathMin(n + cProps.step, cProps.max)

DecNext(n) == MathMax(n - cProps.step, cProps.min)

\* useControllableState: set(next) writes the state only when uncontrolled
\* and always calls onChange(next).
setCountAlwaysWrites(next) ==
  /\ cState' = next
  /\ cCalls' = <<next>>

setCount(next) ==
  /\ cState' = IF cProps.controlled THEN cState ELSE next
  /\ cCalls' = <<next>>

\* The + button carries disabled={disabled || count >= max}: a click on a
\* disabled button runs no handler.
PlusEnabled == ~(cProps.disabled \/ count >= cProps.max)

MinusEnabled == ~(cProps.disabled \/ count <= cProps.min)

\* const inc = () => { if (disabled) return; setCount(min(count+step, max)) }
inc ==
  IF cProps.disabled
    THEN /\ cState' = cState
         /\ cCalls' = <<>>
    ELSE setCount(IncNext(count))

dec ==
  IF cProps.disabled
    THEN /\ cState' = cState
         /\ cCalls' = <<>>
    ELSE setCount(DecNext(count))

\* The user clicks +.
ClickPlus ==
  /\ IncNext(count) \in CountCap
  /\ cEvent' = "plus"
  /\ cPrev' = count
  /\ IF PlusEnabled THEN inc ELSE (cState' = cState /\ cCalls' = <<>>)
  /\ UNCHANGED cProps
  /\ UNCHANGED <<renderVars, spinnerVars, crumbVars, pageVars, numberVars,
                 currencyVars,
                        paginationVars,
                        fileVars,
                        selectVars,
                        dateVars>>

\* The user clicks -.
ClickMinus ==
  /\ DecNext(count) \in CountCap
  /\ cEvent' = "minus"
  /\ cPrev' = count
  /\ IF MinusEnabled THEN dec ELSE (cState' = cState /\ cCalls' = <<>>)
  /\ UNCHANGED cProps
  /\ UNCHANGED <<renderVars, spinnerVars, crumbVars, pageVars, numberVars,
                 currencyVars,
                        paginationVars,
                        fileVars,
                        selectVars,
                        dateVars>>

\* The parent re-renders a controlled Counter with another value, or
\* toggles disabled.
ParentRerender ==
  /\ \E v \in CounterRange, d \in BOOLEAN :
       /\ (cProps.controlled \/ v = cProps.value)
       /\ <<v, d>> # <<cProps.value, cProps.disabled>>
       /\ cProps' = [cProps EXCEPT !.value = v, !.disabled = d]
  /\ cEvent' = "parent"
  /\ cPrev' = count
  /\ cCalls' = <<>>
  /\ UNCHANGED cState
  /\ UNCHANGED <<renderVars, spinnerVars, crumbVars, pageVars, numberVars,
                 currencyVars,
                        paginationVars,
                        fileVars,
                        selectVars,
                        dateVars>>

InitCounter ==
  /\ IdleRender
  /\ IdleSpinner
  /\ IdleCrumb
  /\ IdlePage
  /\ IdleNumber
  /\ IdleCurrency
  /\ IdlePagination
  /\ IdleFile
  /\ IdleSelect
  /\ IdleDate
  /\ cProps \in CounterProps
  /\ (~cProps.controlled => cProps.value = 0)
  /\ cState = cProps.defaultValue     \* React.useState(defaultValue)
  /\ cCalls = <<>>
  /\ cEvent = "none"
  /\ cPrev = count

NextCounter == ClickPlus \/ ClickMinus \/ ParentRerender

SpecCounter == InitCounter /\ [][NextCounter]_vars

\* The calls the last event made to onChange all passed a value in lo..hi.
CallsWithin(calls, lo, hi) ==
  \A i \in 1..Len(calls) : lo <= calls[i] /\ calls[i] <= hi

\* C1's precondition: uncontrolled, min <= defaultValue <= max, step >= 0.
C1_Pre ==
  /\ ~cProps.controlled
  /\ cProps.min <= cProps.defaultValue
  /\ cProps.defaultValue <= cProps.max
  /\ cProps.step >= 0

\* C1: an uncontrolled Counter with min <= defaultValue <= max and
\* step >= 0 keeps its count within [min, max] through every sequence of
\* + and - clicks, and passes onChange only values within [min, max].
C1_CountStaysInRange ==
  C1_Pre =>
    /\ cProps.min <= count /\ count <= cProps.max
    /\ CallsWithin(cCalls, cProps.min, cProps.max)

\* C1's case: a + click whose count + step passed max, and was clamped.
C1_Witness ==
  /\ C1_Pre
  /\ cEvent = "plus"
  /\ cCalls # <<>>
  /\ cPrev + cProps.step > cProps.max

\* C5: a + click on an enabled Counter below max sets the count to
\* min(count + step, max) and calls onChange once with it; a - click above
\* min sets it to max(count - step, min) likewise; a click on a disabled
\* Counter changes nothing and calls nothing; a controlled Counter never
\* writes its internal state (it still holds defaultValue) and only calls
\* onChange.
C5_ClickContract ==
  /\ (cEvent = "plus" /\ ~cProps.disabled /\ cPrev < cProps.max) =>
       /\ cCalls = <<MathMin(cPrev + cProps.step, cProps.max)>>
       /\ (~cProps.controlled =>
             count = MathMin(cPrev + cProps.step, cProps.max))
  /\ (cEvent = "minus" /\ ~cProps.disabled /\ cPrev > cProps.min) =>
       /\ cCalls = <<MathMax(cPrev - cProps.step, cProps.min)>>
       /\ (~cProps.controlled =>
             count = MathMax(cPrev - cProps.step, cProps.min))
  /\ (cEvent \in {"plus", "minus"} /\ cProps.disabled) =>
       /\ cCalls = <<>>
       /\ count = cPrev
  /\ (cProps.controlled => cState = cProps.defaultValue)

\* C5's case: a + click on an enabled, controlled Counter below max whose
\* value prop differs from the value reported.
C5_Witness ==
  /\ cEvent = "plus"
  /\ cProps.controlled
  /\ ~cProps.disabled
  /\ cPrev < cProps.max
  /\ cCalls # <<>>
  /\ cCalls[1] # cState


(***************************************************************************)
(*                             NumberInput                                 *)
(***************************************************************************)

\* Stepping is followed while the emitted value stays within MaxUnits units
\* of zero.
MaxUnits == 3

\* a < b and a <= b on JavaScript numbers: false when either is NaN.
JsLt(a, b) == a # NaN /\ b # NaN /\ a < b

JsLe(a, b) == a # NaN /\ b # NaN /\ a <= b

NumberMins == {NegInf, 0, 2 * Scale, PosInf}

NumberMaxes == {Scale, PosInf}

\* What the parent passes as value when the input is controlled.
NumberValues ==
  { NumberValue(0), NumberValue(5 * Scale), NumberValue(PosInf),
    NumberValue(NaN), StringValue(<<"2", ",", "5">>) }

\* What the user leaves in the text box.
NumberTyped ==
  { <<>>, <<"-">>, <<"5">>, <<"1", ".", "5">>, <<"2", ",", "5">>,
    <<"-", "1">>, <<"2", ".", "5", "1">>, <<"1", "5">>, <<"1", "x">> }

\* The props of an instance.  value is read only when the input is
\* controlled (uncontrolled, it is undefined) and defaultValue only when it
\* is not; an undefined defaultValue is 0 in both places that read it.
NumberModes ==
  {[controlled |-> TRUE, value |-> v, defaultValue |-> 0] :
     v \in NumberValues}
  \cup {[controlled |-> FALSE, value |-> NumberValue(0), defaultValue |-> dv] :
          dv \in {0, 150}}

NumberProps ==
  { [ min |-> mn, max |-> mx, step |-> st, precision |-> pr,
      controlled |-> m.controlled, value |-> m.value,
      defaultValue |-> m.defaultValue,
      disabled |-> md[1], readOnly |-> md[2] ] :
      mn \in NumberMins, mx \in NumberMaxes, st \in {Scale \div 2, Scale},
      pr \in {0, 2}, m \in NumberModes,
      md \in {<<FALSE, FALSE>>, <<TRUE, FALSE>>, <<FALSE, TRUE>>} }

\* parseNum(raw) for a number or a string
parseNum(raw) ==
  IF raw.kind = "number" THEN raw.n
  ELSE IF raw.s = <<>> THEN 0
  ELSE LET n == ParseFloat(CleanNumeric(raw.s))
       IN  IF IsFinite(n) THEN n ELSE 0

\* clamp without its Math.min
clampMinOnly(n) == JsMax(nProps.min, n)

clamp(n) == JsMax(nProps.min, JsMin(nProps.max, n))

\* Intl.NumberFormat with minimum = maximum = precision fraction digits, for
\* magnitudes below a thousand units (no grouping separator).
FormatterFormat(n) ==
  IF n = NaN THEN <<"N", "a", "N">>
  ELSE IF n = PosInf THEN <<"oo">>
  ELSE IF n = NegInf THEN <<"-", "oo">>
  ELSE LET r == ToFixedNumber(n, nProps.precision)
           a == Abs(r)
           frac == <<DigitChars[((a % Scale) \div 10) + 1],
                     DigitChars[(a % 10) + 1]>>
       IN  (IF r < 0 THEN <<"-">> ELSE <<>>)
             \o DigitsOf(a \div Scale)
             \o (IF nProps.precision > 0
                   THEN <<".">> \o SubSeq(frac, 1, nProps.precision)
                   ELSE <<>>)

\* format(n) as the render with the given focused builds it
format(n, focused) ==
  IF ~focused /\ n = 0 /\ ~nProps.controlled /\ nProps.defaultValue = 0
    THEN <<>>
    ELSE FormatterFormat(n)

\* /^-?\d*([.,]\d*)?$/.test(raw)
MatchesNumeric(raw) ==
  LET body == IF raw # <<>> /\ raw[1] = "-" THEN Tail(raw) ELSE raw
      afterInt == DropDigits(body)
  IN  \/ afterInt = <<>>
      \/ /\ afterInt[1] \in {".", ","}
         /\ DropDigits(Tail(afterInt)) = <<>>

\* The component's state as a handler finds it; calls collects its onChange
\* calls and raw the number it handed to emit.
NumberState ==
  [ focused |-> nFocused, internal |-> nInternal, display |-> nDisplay,
    calls |-> <<>>, raw |-> 0 ]

\* emit(n), with focused and format as the last render closed over them
emit(st, n) ==
  LET clamped == clamp(IF IsFinite(n) THEN n ELSE 0)
  IN  [ st EXCEPT
          !.internal = IF nProps.controlled THEN @ ELSE clamped,
          !.calls = Append(@, clamped),
          !.raw = n,
          !.display = IF nFocused THEN NumToString(clamped)
                      ELSE format(clamped, nFocused) ]


\* handleChange, e.target.value = raw
NumberInput_handleChange(raw) ==
  IF raw = <<>> \/ MatchesNumeric(raw)
    THEN LET parsed == parseNum(StringValue(raw))
             shown == [NumberState EXCEPT !.display = raw]
         IN  IF ~nFocused THEN emit(shown, parsed)
             ELSE IF ~nProps.controlled
               THEN [shown EXCEPT !.internal = parsed]
               ELSE shown
    ELSE NumberState

\* The value stepBy(delta) hands to emit.
StepNext(delta) ==
  LET base == IF nProps.controlled THEN parseNum(nProps.value) ELSE nInternal
  IN  clamp(ToFixedNumber(JsAdd(base, delta), MathMax(0, nProps.precision)))

stepBy(delta) ==
  IF nProps.disabled \/ nProps.readOnly THEN NumberState
  ELSE emit(NumberState, StepNext(delta))

NumberInput_handleFocusLocal ==
  LET current == IF nProps.controlled THEN parseNum(nProps.value)
                 ELSE nInternal
  IN  [ NumberState EXCEPT
          !.focused = TRUE,
          !.display = IF current = 0 \/ current = NaN THEN <<>>
                      ELSE NumToString(current) ]

NumberInput_handleBlurLocal ==
  LET raw == IF nProps.controlled THEN parseNum(nProps.value)
             ELSE parseNum(StringValue(nDisplay))
      rounded == ToFixedNumber(raw, MathMax(0, nProps.precision))
  IN  emit([NumberState EXCEPT !.focused = FALSE], rounded)

NumberKeys == {"ArrowUp", "ArrowDown", "PageUp", "PageDown", "Enter"}

\* The step of an arrow or page key.
KeyDelta(key) ==
  IF key = "ArrowUp" THEN nProps.step
  ELSE IF key = "ArrowDown" THEN JsNeg(nProps.step)
  ELSE IF key = "PageUp" THEN JsTimes(nProps.step, 10)
  ELSE JsTimes(JsNeg(nProps.step), 10)

\* handleKeyDown; Enter blurs the input, which runs handleBlurLocal
NumberInput_handleKeyDown(key) ==
  IF nProps.disabled \/ nProps.readOnly THEN NumberState
  ELSE IF key = "Enter" THEN NumberInput_handleBlurLocal
  ELSE stepBy(KeyDelta(key))

NumberCurrent ==
  IF nProps.controlled THEN clamp(parseNum(nProps.value))
  ELSE clamp(nInternal)

canInc == JsLt(NumberCurrent, nProps.max) /\ ~nProps.disabled /\ ~nProps.readOnly

canDec == JsLt(nProps.min, NumberCurrent) /\ ~nProps.disabled /\ ~nProps.readOnly

\* The render after a handler: the state it set, then the effect that
\* copies a controlled value into internalValue and displayValue when value
\* or focused changed.
NumberCommit(st, value, name) ==
  LET sync == /\ nProps.controlled
              /\ (st.focused # nFocused \/ value # nProps.value)
      parsed == parseNum(value)
  IN  /\ nProps' = [nProps EXCEPT !.value = value]
      /\ nFocused' = st.focused
      /\ nInternal' = IF sync THEN parsed ELSE st.internal
      /\ nDisplay' = IF ~sync THEN st.display
                     ELSE IF st.focused THEN NumToString(parsed)
                     ELSE format(parsed, st.focused)
      /\ nCalls' = st.calls
      /\ nEvent' = [name |-> name, raw |-> st.raw]
      /\ UNCHANGED <<counterVars, renderVars, spinnerVars, crumbVars, pageVars,
                     currencyVars,
                        paginationVars,
                        fileVars,
                        selectVars,
                        dateVars>>

\* A stepped value is followed while it stays within MaxUnits units of zero.
WithinUnits(st) ==
  \A i \in 1..Len(st.calls) :
    IsFinite(st.calls[i]) => Abs(st.calls[i]) <= MaxUnits * Scale

NumberFocus ==
  /\ ~nFocused
  /\ ~nProps.disabled
  /\ NumberCommit(NumberInput_handleFocusLocal, nProps.value, "focus")

NumberType ==
  /\ ~nProps.disabled
  /\ ~nProps.readOnly
  /\ \E raw \in NumberTyped :
       /\ raw # nDisplay
       /\ NumberCommit(NumberInput_handleChange(raw), nProps.value, "change")

NumberBlur ==
  /\ nFocused
  /\ NumberCommit(NumberInput_handleBlurLocal, nProps.value, "blur")

NumberKeyDown ==
  /\ nFocused
  /\ \E key \in NumberKeys :
       /\ WithinUnits(NumberInput_handleKeyDown(key))
       /\ NumberCommit(NumberInput_handleKeyDown(key), nProps.value, key)

\* A click on the + button, which the DOM delivers unless it is disabled.
NumberIncrement ==
  /\ canInc
  /\ WithinUnits(stepBy(nProps.step))
  /\ NumberCommit(stepBy(nProps.step), nProps.value, "increment")

NumberDecrement ==
  /\ canDec
  /\ WithinUnits(stepBy(JsNeg(nProps.step)))
  /\ NumberCommit(stepBy(JsNeg(nProps.step)), nProps.value, "decrement")

\* The parent of a controlled input renders it with the value it was last
\* handed, or with another value of its own.
NumberParentStores ==
  /\ nProps.controlled
  /\ nCalls # <<>>
  /\ NumberValue(nCalls[Len(nCalls)]) # nProps.value
  /\ NumberCommit(NumberState, NumberValue(nCalls[Len(nCalls)]), "value")

NumberParentSets ==
  /\ nProps.controlled
  /\ \E v \in NumberValues :
       /\ v # nProps.value
       /\ NumberCommit(NumberState, v, "value")

\* The state after the mount: the initial useState values, then the effect.
InitNumber ==
  /\ IdleCounter
  /\ IdleRender
  /\ IdleSpinner
  /\ IdleCrumb
  /\ IdlePage
  /\ IdleCurrency
  /\ IdlePagination
  /\ IdleFile
  /\ IdleSelect
  /\ IdleDate
  /\ nProps \in NumberProps
  /\ nFocused = FALSE
  /\ nInternal = IF nProps.controlled THEN parseNum(nProps.value)
                 ELSE nProps.defaultValue
  /\ nDisplay = IF nProps.controlled
                  THEN format(parseNum(nProps.value), FALSE)
                  ELSE <<>>
  /\ nCalls = <<>>
  /\ nEvent = [name |-> "mount", raw |-> 0]

NextNumber ==
  \/ NumberFocus
  \/ NumberType
  \/ NumberBlur
  \/ NumberKeyDown
  \/ NumberIncrement
  \/ NumberDecrement
  \/ NumberParentStores
  \/ NumberParentSets

SpecNumber == InitNumber /\ [][NextNumber]_vars

\* The range [min, max] of the instance, and whether a finite number
\* lies in it.
InNumberRange(x) == JsLe(nProps.min, x) /\ JsLe(x, nProps.max)

C6_Pre == JsLe(nProps.min, nProps.max)

RangeHasFinite == JsLt(nProps.min, PosInf) /\ JsLt(NegInf, nProps.max)

\* C6 as stated: with min <= max, every value passed to onChange after any
\* typing, stepper click, arrow or page key and blur is finite and lies
\* within [min, max].
C6_EmittedFiniteAndInRange ==
  C6_Pre =>
    \A i \in 1..Len(nCalls) : IsFinite(nCalls[i]) /\ InNumberRange(nCalls[i])

\* C6 as the code has it: with min <= max, every value passed to onChange
\* lies within [min, max], and it is finite whenever [min, max] holds a
\* finite number (min < +Infinity and max > -Infinity); with
\* min = max = +Infinity the value emitted is +Infinity.
C6_EmittedInRangeFiniteIfRangeIs ==
  C6_Pre =>
    \A i \in 1..Len(nCalls) :
      /\ InNumberRange(nCalls[i])
      /\ RangeHasFinite => IsFinite(nCalls[i])

\* A blur whose rounded text lay above max emitted max.
C6_Witness ==
  /\ C6_Pre
  /\ RangeHasFinite
  /\ nEvent.name = "blur"
  /\ IsFinite(nEvent.raw)
  /\ nEvent.raw > nProps.max
  /\ nCalls = <<nProps.max>>


(***************************************************************************)
(*                            CurrencyInput                                *)
(***************************************************************************)

\* A value prop that was not passed.
UndefinedValue == [kind |-> "undefined", n |-> 0, s |-> <<>>]

CurrencyMins == {0 - Scale, 0, 2 * Scale}

\* max is passed explicitly; Infinity stands for a maximum no typed amount
\* reaches, as the default 999_999_999 is.
CurrencyMaxes == {Scale, 5 * Scale, PosInf}

CurrencyValues ==
  { UndefinedValue, NumberValue(0), NumberValue(3 * Scale), NumberValue(NaN),
    StringValue(<<"2", ",", "5">>) }

CurrencyTyped ==
  { <<>>, <<"5">>, <<"1", ".", "5">>, <<"1", ",", "5">>, <<"1", "5">>,
    <<"-", "3">>, <<"1", ".", ".", "5">>, <<"1", " ", "5">>, <<"-">>,
    <<"x">> }

CurrencyProps ==
  { [ min |-> mn, max |-> mx, value |-> v,
      disabled |-> md[1], readOnly |-> md[2] ] :
      mn \in CurrencyMins, mx \in CurrencyMaxes, v \in CurrencyValues,
      md \in {<<FALSE, FALSE>>, <<TRUE, FALSE>>, <<FALSE, TRUE>>} }

\* s.replace(/\.+/g, "."): each run of dots becomes one dot
RECURSIVE CollapseDots(_)
CollapseDots(s) ==
  IF Len(s) < 2 THEN s
  ELSE IF s[1] = "." /\ s[2] = "." THEN CollapseDots(Tail(s))
  ELSE <<s[1]>> \o CollapseDots(Tail(s))

\* parseValue(formatted) for undefined, a number or a string
parseValue(formatted) ==
  IF formatted.kind = "undefined" THEN 0
  ELSE IF formatted.kind = "number" THEN formatted.n
  ELSE IF formatted.s = <<>> THEN 0
  ELSE LET num == ParseFloat(CollapseDots(CleanNumeric(formatted.s)))
       IN  IF IsFinite(num) THEN num ELSE 0

\* formatValue(num): "" for 0 and NaN, else the en-US currency format with
\* 0 to 2 fraction digits, for magnitudes below a thousand units.
formatValue(num) ==
  IF num = 0 \/ num = NaN THEN <<>>
  ELSE IF num = PosInf THEN <<"$", "oo">>
  ELSE IF num = NegInf THEN <<"-", "$", "oo">>
  ELSE (IF num < 0 THEN <<"-">> ELSE <<>>)
         \o <<"$">> \o NumToString(Abs(num))

\* base ? String(base) : ""
StringOrEmpty(base) ==
  IF base = 0 \/ base = NaN THEN <<>> ELSE NumToString(base)

\* /^[\d.,\s-]+$/.test(raw)
MatchesPlausible(raw) ==
  /\ raw # <<>>
  /\ \A i \in 1..Len(raw) : raw[i] \in DigitSet \cup {".", ",", " ", "-"}

\* Math.max(min, Math.min(max, n)) with the instance's min and max
CurrencyClamp(n) == JsMax(uProps.min, JsMin(uProps.max, n))

CurrencyState ==
  [ focused |-> uFocused, internal |-> uInternal, display |-> uDisplay,
    calls |-> <<>> ]

CurrencyInput_handleChange(raw) ==
  IF raw = <<>> \/ MatchesPlausible(raw)
    THEN LET numeric == parseValue(StringValue(raw))
             clamped == CurrencyClamp(numeric)
         IN  [ CurrencyState EXCEPT
                 !.display = raw,
                 !.internal = clamped,
                 !.calls = Append(@, clamped) ]
    ELSE CurrencyState

CurrencyCurrent ==
  IF uProps.value.kind # "undefined" THEN parseValue(uProps.value)
  ELSE uInternal

CurrencyInput_handleFocusLocal ==
  [ CurrencyState EXCEPT
      !.focused = TRUE,
      !.display = StringOrEmpty(CurrencyCurrent) ]

CurrencyInput_handleBlurLocal ==
  LET clamped == CurrencyClamp(CurrencyCurrent)
  IN  [ CurrencyState EXCEPT
          !.focused = FALSE,
          !.internal = clamped,
          !.display = formatValue(clamped),
          !.calls = Append(@, clamped) ]

\* handleClear: the zero it emits is not clamped
handleClear ==
  IF uProps.disabled \/ uProps.readOnly THEN CurrencyState
  ELSE [ CurrencyState EXCEPT
           !.internal = 0,
           !.display = <<>>,
           !.calls = Append(@, 0) ]

\* The render after a handler: the state it set, then the effect that runs
\* when value or focused changed and rewrites internalValue and displayValue.
CurrencyCommit(st, value, name) ==
  LET sync == st.focused # uFocused \/ value # uProps.value
      base == IF value.kind # "undefined" THEN parseValue(value)
              ELSE st.internal
  IN  /\ uProps' = [uProps EXCEPT !.value = value]
      /\ uFocused' = st.focused
      /\ uInternal' = IF sync THEN base ELSE st.internal
      /\ uDisplay' = IF ~sync THEN st.display
                     ELSE IF st.focused THEN StringOrEmpty(base)
                     ELSE formatValue(base)
      /\ uCalls' = st.calls
      /\ uEvent' = name
      /\ UNCHANGED OtherThan_currencyVars

CurrencyFocus ==
  /\ ~uFocused
  /\ ~uProps.disabled
  /\ CurrencyCommit(CurrencyInput_handleFocusLocal, uProps.value, "focus")

CurrencyType ==
  /\ ~uProps.disabled
  /\ ~uProps.readOnly
  /\ \E raw \in CurrencyTyped :
       /\ raw # uDisplay
       /\ CurrencyCommit(CurrencyInput_handleChange(raw), uProps.value,
                         "change")

CurrencyBlur ==
  /\ uFocused
  /\ CurrencyCommit(CurrencyInput_handleBlurLocal, uProps.value, "blur")

\* The clear button is rendered while displayValue is not empty and the
\* input is neither readOnly nor disabled.
CurrencyClear ==
  /\ uDisplay # <<>>
  /\ ~uProps.readOnly
  /\ ~uProps.disabled
  /\ CurrencyCommit(handleClear, uProps.value, "clear")

\* The parent of a controlled input renders it with the value it was last
\* handed, or with another value of its own.
CurrencyParentStores ==
  /\ uProps.value.kind # "undefined"
  /\ uCalls # <<>>
  /\ NumberValue(uCalls[Len(uCalls)]) # uProps.value
  /\ CurrencyCommit(CurrencyState, NumberValue(uCalls[Len(uCalls)]), "value")

CurrencyParentSets ==
  /\ uProps.value.kind # "undefined"
  /\ \E v \in CurrencyValues \ {UndefinedValue} :
       /\ v # uProps.value
       /\ CurrencyCommit(CurrencyState, v, "value")

\* The state after the mount: the initial useState values, then the effect.
InitCurrency ==
  /\ IdleCounter
  /\ IdleRender
  /\ IdleSpinner
  /\ IdleCrumb
  /\ IdlePage
  /\ IdleNumber
  /\ IdlePagination
  /\ IdleFile
  /\ IdleSelect
  /\ IdleDate
  /\ uProps \in CurrencyProps
  /\ uFocused = FALSE
  /\ uInternal = IF uProps.value.kind = "undefined" THEN 0
                 ELSE parseValue(uProps.value)
  /\ uDisplay = IF uProps.value.kind = "undefined" THEN <<>>
                ELSE formatValue(parseValue(uProps.value))
  /\ uCalls = <<>>
  /\ uEvent = "mount"

NextCurrency ==
  \/ CurrencyFocus
  \/ CurrencyType
  \/ CurrencyBlur
  \/ CurrencyClear
  \/ CurrencyParentStores
  \/ CurrencyParentSets

SpecCurrency == InitCurrency /\ [][NextCurrency]_vars

C7_Pre == JsLe(uProps.min, uProps.max)

\* C7: with min <= max, every value passed to onChange after any typing,
\* blur and click on the clear button lies within [min, max].
C7_EmittedInRange ==
  C7_Pre =>
    \A i \in 1..Len(uCalls) :
      JsLe(uProps.min, uCalls[i]) /\ JsLe(uCalls[i], uProps.max)

(***************************************************************************)
(*                    Pagination: callbacks and disabled                   *)
(***************************************************************************)

\* total and page range over 0..MaxTotal.
MaxTotal == 4

PaginationKeys == {"ArrowRight", "ArrowLeft", "Home", "End"}

PaginationProps ==
  [ page : 0..MaxTotal, pageSize : 0..2, total : 0..MaxTotal,
    disabled : BOOLEAN, showPageSize : BOOLEAN ]

\* Math.ceil(a / b) for a >= 0, b >= 1
CeilDiv(a, b) == (a + b - 1) \div b

\* totalPages of a render with props p
totalPages(p) == MathMax(1, CeilDiv(p.total, MathMax(1, p.pageSize)))

\* function clamp(n, min, max)
Pagination_clamp(n, min, max) == MathMax(min, MathMin(n, max))

safePage(p) == Pagination_clamp(p.page, 1, totalPages(p))

PageCall(n) == [fn |-> "onPageChange", arg |-> n]

SizeCall(n) == [fn |-> "onPageSizeChange", arg |-> n]

\* goTo(n): the callbacks it invokes
goTo(n) ==
  IF gProps.disabled THEN <<>>
  ELSE LET next == Pagination_clamp(n, 1, totalPages(gProps))
       IN  IF next # gProps.page THEN <<PageCall(next)>> ELSE <<>>

\* onKeyDown on the <nav>
Pagination_onKeyDown(key) ==
  IF gProps.disabled THEN <<>>
  ELSE IF key = "ArrowRight" THEN goTo(gProps.page + 1)
  ELSE IF key = "ArrowLeft" THEN goTo(gProps.page - 1)
  ELSE IF key = "Home" THEN goTo(1)
  ELSE goTo(totalPages(gProps))

\* The effect of a render with props p: onPageChange(safePage) when page is
\* not safePage.  It does not read disabled.
PageEffect(p) ==
  IF p.page # safePage(p) THEN <<PageCall(safePage(p))>> ELSE <<>>

\* A handler ran; the props are those of the last render.
PaginationHandled(calls, name) ==
  /\ gCalls' = calls
  /\ gEvent' = name
  /\ UNCHANGED gProps
  /\ UNCHANGED OtherThan_paginationVars

\* A click on a page button, which the DOM delivers unless it is disabled.
PaginationClickPage ==
  /\ ~gProps.disabled
  /\ \E i \in 1..Len(buildRange(gProps.page, totalPages(gProps), 1, 1)) :
       LET it == buildRange(gProps.page, totalPages(gProps), 1, 1)[i]
       IN  /\ it.kind = "page"
           /\ PaginationHandled(goTo(it.n), "page")

PaginationClickBack ==
  /\ ~(gProps.disabled \/ gProps.page <= 1)
  /\ \/ PaginationHandled(goTo(1), "first")
     \/ PaginationHandled(goTo(gProps.page - 1), "prev")

PaginationClickForward ==
  /\ ~(gProps.disabled \/ gProps.page >= totalPages(gProps))
  /\ \/ PaginationHandled(goTo(gProps.page + 1), "next")
     \/ PaginationHandled(goTo(totalPages(gProps)), "last")

\* A key pressed with the <nav> focused.
PaginationKeyDown ==
  \E key \in PaginationKeys :
    /\ gCalls' = Pagination_onKeyDown(key)
    /\ gEvent' = key
    /\ UNCHANGED gProps
    /\ UNCHANGED OtherThan_paginationVars

\* The page-size <select>, rendered with showPageSize and disabled={disabled}.
PaginationSelectSize ==
  /\ gProps.showPageSize
  /\ ~gProps.disabled
  /\ \E opt \in 1..2 :
       /\ opt # gProps.pageSize
       /\ PaginationHandled(<<SizeCall(opt)>>, "size")

\* The parent renders again with other props; the effect runs when
\* totalPages differs from that of the render before.
PaginationRerender ==
  \E p \in PaginationProps :
    /\ p # gProps
    /\ gProps' = p
    /\ gCalls' = IF totalPages(p) # totalPages(gProps) THEN PageEffect(p)
                 ELSE <<>>
    /\ gEvent' = "render"
    /\ UNCHANGED OtherThan_paginationVars

\* The mount: the first render's effect always runs.
InitPagination ==
  /\ IdleCounter
  /\ IdleRender
  /\ IdleSpinner
  /\ IdleCrumb
  /\ IdlePage
  /\ IdleNumber
  /\ IdleCurrency
  /\ IdleFile
  /\ IdleSelect
  /\ IdleDate
  /\ gProps \in PaginationProps
  /\ gCalls = PageEffect(gProps)
  /\ gEvent = "mount"

NextPagination ==
  \/ PaginationClickPage
  \/ PaginationClickBack
  \/ PaginationClickForward
  \/ PaginationKeyDown
  \/ PaginationSelectSize
  \/ PaginationRerender

SpecPagination == InitPagination /\ [][NextPagination]_vars

\* C11: while disabled is true, no click, key press or re-render (including
\* a change of total, pageSize or page) invokes onPageChange or
\* onPageSizeChange.
C11_DisabledInvokesNothing ==
  [][gProps.disabled /\ gProps'.disabled => gCalls' = <<>>]_vars

(***************************************************************************)
(*                              FileInput                                  *)
(***************************************************************************)

\* Lists handed to the input hold at most MaxIncoming files; with maxFiles
\* unset, additions are followed up to MaxHeld held files.
MaxIncoming == 2

MaxHeld == 3

\* An optional number prop: not passed, or a number.
Unset == [set |-> FALSE, n |-> 0]

NumberProp(n) == [set |-> TRUE, n |-> n]

\* A File, with what validate(file) returns for it ("null" is null).
FileOf(id, size, verdict) == [id |-> id, size |-> size, verdict |-> verdict]

AddableFiles ==
  {FileOf(1, 1, "null"), FileOf(2, 3, "null"), FileOf(3, 1, "bad")}

\* The lists of at most n files drawn from a set.
ListsOf(S, n) == UNION {[1..k -> S] : k \in 0..n}

FileProps ==
  [ multiple : BOOLEAN,
    maxFiles : {Unset} \cup {NumberProp(n) : n \in 0..2},
    maxSize : {Unset, NumberProp(2)},
    validate : BOOLEAN,
    defaultValue : ListsOf(AddableFiles, MaxIncoming),
    disabled : BOOLEAN, readOnly : {FALSE}, clearable : {TRUE} ]

\* `maxSize &&`: a number prop that is passed and is not 0
Truthy(prop) == prop.set /\ prop.n # 0

\* validateFiles(incoming) with the maxSize and validate props given;
\* validated lists the files handed to validate, in call order.
RECURSIVE validateFiles(_, _, _)
validateFiles(incoming, maxSize, validate) ==
  IF incoming = <<>>
    THEN [accepted |-> <<>>, rejected |-> <<>>, reasons |-> <<>>,
          validated |-> <<>>]
    ELSE LET sofar == validateFiles(SubSeq(incoming, 1, Len(incoming) - 1),
                                    maxSize, validate)
             f == incoming[Len(incoming)]
         IN  IF Truthy(maxSize) /\ f.size > maxSize.n
               THEN [sofar EXCEPT
                       !.rejected = Append(@, f),
                       !.reasons = Append(@, [by |-> "maxSize", id |-> f.id,
                                              text |-> "excede"])]
             ELSE IF validate /\ f.verdict \notin {"null", ""}
               THEN [sofar EXCEPT
                       !.rejected = Append(@, f),
                       !.reasons = Append(@, [by |-> "validate", id |-> f.id,
                                              text |-> f.verdict]),
                       !.validated = Append(@, f)]
             ELSE [sofar EXCEPT
                     !.accepted = Append(@, f),
                     !.validated = IF validate THEN Append(@, f) ELSE @]

\* incoming.slice(0, space)
SliceToSpace(incoming) ==
  IF fProps.maxFiles.set
    THEN SubSeq(incoming, 1,
                MathMin(Len(incoming),
                        MathMax(0, fProps.maxFiles.n - Len(fFiles))))
    ELSE incoming

\* addFiles without the slice to the space left
addFilesUnsliced(incoming) ==
  LET accepted ==
        validateFiles(incoming, fProps.maxSize, fProps.validate).accepted
  IN  IF accepted = <<>> THEN fFiles
      ELSE IF fProps.multiple THEN fFiles \o accepted
      ELSE <<accepted[1]>>

\* addFiles(incoming): the list it applies (current when nothing is accepted)
addFiles(incoming) ==
  LET accepted ==
        validateFiles(SliceToSpace(incoming), fProps.maxSize,
                      fProps.validate).accepted
  IN  IF accepted = <<>> THEN fFiles
      ELSE IF fProps.multiple THEN fFiles \o accepted
      ELSE <<accepted[1]>>

\* current.filter((_, idx) => idx !== i), i counted from 1
removeAt(i) ==
  [k \in 1..(Len(fFiles) - 1) |-> IF k < i THEN fFiles[k] ELSE fFiles[k + 1]]

FileApply(next, name, offered) ==
  /\ Len(next) <= MaxHeld
  /\ fFiles' = next
  /\ fEvent' = [name |-> name, offered |-> offered]
  /\ UNCHANGED <<fProps, vArgs, vResult>>
  /\ UNCHANGED OtherThan_fileVars

\* The picker: the <input type="file"> is disabled with disabled or readOnly
\* and hands over one file at most without the multiple attribute.
FilePick ==
  /\ ~(fProps.disabled \/ fProps.readOnly)
  /\ \E incoming \in ListsOf(AddableFiles, MaxIncoming) :
       /\ incoming # <<>>
       /\ ~fProps.multiple => Len(incoming) = 1
       /\ FileApply(addFiles(incoming), "pick", Len(incoming))

\* A drop on the box, which listens while neither disabled nor readOnly.
FileDrop ==
  /\ ~(fProps.disabled \/ fProps.readOnly)
  /\ \E incoming \in ListsOf(AddableFiles, MaxIncoming) :
       /\ incoming # <<>>
       /\ FileApply(addFiles(incoming), "drop", Len(incoming))

FileRemove ==
  \E i \in 1..Len(fFiles) :
    /\ i >= 1
    /\ FileApply(removeAt(i), "remove", 0)

FileClear ==
  /\ fProps.clearable
  /\ fFiles # <<>>
  /\ FileApply(<<>>, "clear", 0)

InitFile ==
  /\ IdleCounter
  /\ IdleRender
  /\ IdleSpinner
  /\ IdleCrumb
  /\ IdlePage
  /\ IdleNumber
  /\ IdleCurrency
  /\ IdlePagination
  /\ IdleSelect
  /\ IdleDate
  /\ fProps \in FileProps
  /\ fFiles = fProps.defaultValue
  /\ fEvent = [name |-> "mount", offered |-> 0]
  /\ vArgs = [incoming |-> <<>>, maxSize |-> Unset, validate |-> FALSE]
  /\ vResult = validateFiles(<<>>, Unset, FALSE)

NextFile ==
  \/ FilePick
  \/ FileDrop
  \/ FileRemove
  \/ FileClear

SpecFile == InitFile /\ [][NextFile]_vars

\* maxFiles is set, the initial list fits it, and an operation has run.
C12_Pre ==
  /\ fEvent.name # "mount"
  /\ fProps.maxFiles.set
  /\ Len(fProps.defaultValue) <= fProps.maxFiles.n

\* C12 as stated: uncontrolled, maxFiles set, the initial list no longer
\* than maxFiles: after any picker selections, drops, removals and clear-all
\* the held files never exceed maxFiles, and never exceed 1 with
\* multiple = false.
C12_HeldWithinMaxFiles ==
  C12_Pre =>
    /\ Len(fFiles) <= fProps.maxFiles.n
    /\ ~fProps.multiple => Len(fFiles) <= 1

\* C12 as the code has it: the held files never exceed maxFiles, and with
\* multiple = false they never exceed 1 when the initial list held at most
\* one file (defaultValue is kept as passed).
C12_HeldWithinMaxFilesSingleFromOne ==
  C12_Pre =>
    /\ Len(fFiles) <= fProps.maxFiles.n
    /\ (~fProps.multiple /\ Len(fProps.defaultValue) <= 1)
         => Len(fFiles) <= 1

\* A drop of more files than maxFiles filled the list to maxFiles.
C12_Witness ==
  /\ C12_Pre
  /\ fProps.multiple
  /\ fEvent.name = "drop"
  /\ fEvent.offered > fProps.maxFiles.n
  /\ fProps.maxFiles.n >= 1
  /\ Len(fFiles) = fProps.maxFiles.n

(* ----------------------- FileInput.validateFiles ----------------------- *)

\* validateFiles is called with lists of at most MaxBatch files.
MaxBatch == 3

ValidatableFiles ==
  { FileOf(1, 0, "null"), FileOf(2, 1, "null"), FileOf(3, 2, "bad"),
    FileOf(4, 1, ""), FileOf(5, 1, "bad") }

ValidateArgs ==
  [ incoming : ListsOf(ValidatableFiles, MaxBatch),
    maxSize : {Unset, NumberProp(0), NumberProp(1)},
    validate : BOOLEAN ]

\* A call of validateFiles.
ValidateCall ==
  \E args \in ValidateArgs :
    /\ args # vArgs
    /\ vArgs' = args
    /\ vResult' = validateFiles(args.incoming, args.maxSize, args.validate)
    /\ UNCHANGED <<fProps, fFiles, fEvent>>
    /\ UNCHANGED OtherThan_fileVars

InitValidate ==
  /\ IdleCounter
  /\ IdleRender
  /\ IdleSpinner
  /\ IdleCrumb
  /\ IdlePage
  /\ IdleNumber
  /\ IdleCurrency
  /\ IdlePagination
  /\ IdleSelect
  /\ IdleDate
  /\ fProps = [ multiple |-> TRUE, maxFiles |-> Unset, maxSize |-> Unset,
                validate |-> FALSE, defaultValue |-> <<>>,
                disabled |-> FALSE, readOnly |-> FALSE, clearable |-> TRUE ]
  /\ fFiles = <<>>
  /\ fEvent = [name |-> "none", offered |-> 0]
  /\ vArgs = [incoming |-> <<>>, maxSize |-> Unset, validate |-> FALSE]
  /\ vResult = validateFiles(<<>>, Unset, FALSE)

NextValidate == ValidateCall

SpecValidate == InitValidate /\ [][NextValidate]_vars

\* The size check and the validate check as the claim words them.
SizeOk(f) == ~vArgs.maxSize.set \/ f.size <= vArgs.maxSize.n

ValidateOk(f) == ~vArgs.validate \/ f.verdict \in {"null", ""}

\* C13: validateFiles accepts a file iff (maxSize is unset or
\* file.size <= maxSize) and (validate is unset or validate(file) returns no
\* non-empty string); a file failing the size check is never passed to
\* validate; accepted and rejected keep the incoming order and partition the
\* incoming list; reasons[i] is the reason for rejected[i].
C13_ValidateFilesContract ==
  /\ vResult.accepted =
       SelectSeq(vArgs.incoming, LAMBDA f : SizeOk(f) /\ ValidateOk(f))
  /\ vResult.rejected =
       SelectSeq(vArgs.incoming, LAMBDA f : ~(SizeOk(f) /\ ValidateOk(f)))
  /\ \A i \in 1..Len(vResult.validated) : SizeOk(vResult.validated[i])
  /\ Len(vResult.reasons) = Len(vResult.rejected)
  /\ \A i \in 1..Len(vResult.reasons) :
       /\ i <= Len(vResult.rejected)
       /\ vResult.reasons[i].id = vResult.rejected[i].id
       /\ vResult.reasons[i].by =
            IF SizeOk(vResult.rejected[i]) THEN "validate" ELSE "maxSize"

(* ------------------- NumberInput: typing, then blur -------------------- *)

\* The text box holds a numeric string the user typed while focused.
TypedWhileFocused ==
  /\ nFocused
  /\ nEvent.name = "change"
  /\ MatchesNumeric(nDisplay)
  /\ IsFinite(ParseFloat(CleanNumeric(nDisplay)))

\* C14: a numeric string typed while the field is focused is not emitted per
\* keystroke; when the field then loses focus (blur, or Enter) the typed
\* number, rounded to precision and clamped to [min, max], is emitted through
\* onChange, in uncontrolled and in controlled use alike.
C14_BlurEmitsTypedNumber ==
  [][ /\ (nFocused /\ nEvent'.name = "change") => nCalls' = <<>>
      /\ (C6_Pre /\ TypedWhileFocused /\ ~nFocused')
           => nCalls' =
                <<clamp(ToFixedNumber(parseNum(StringValue(nDisplay)),
                                      MathMax(0, nProps.precision)))>> ]_vars

(***************************************************************************)
(*                     Select: the open prop and setOpen                   *)
(***************************************************************************)

\* The open prop: not passed, or a boolean.
OpenUnset == [set |-> FALSE, v |-> FALSE]

OpenProp(b) == [set |-> TRUE, v |-> b]

SelectOptions ==
  { <<>>,
    << [value |-> 1, disabled |-> FALSE], [value |-> 2, disabled |-> TRUE],
       [value |-> 3, disabled |-> FALSE] >> }

SelectProps ==
  [ open : {OpenUnset, OpenProp(TRUE), OpenProp(FALSE)},
    disabled : BOOLEAN, options : SelectOptions ]

SelectKeys == {"Enter", " ", "ArrowDown", "ArrowUp", "Escape", "Home", "End"}

\* isOpen of a render with props p and local state isOpenLocal
isOpenOf(p, isOpenLocal) == IF p.open.set THEN p.open.v ELSE isOpenLocal

isOpen == isOpenOf(lProps, lOpenLocal)

\* The state a handler finds; openCalls collects its onOpenChange calls.
SelectState ==
  [local |-> lOpenLocal, active |-> lActive, value |-> lValue,
   openCalls |-> <<>>]

\* setOpen writing the local state whether or not open is supplied
setOpenAlwaysLocal(st, next) ==
  [st EXCEPT !.openCalls = Append(@, next), !.local = next]

\* setOpen(next)
setOpen(st, next) ==
  [st EXCEPT !.openCalls = Append(@, next),
             !.local = IF lProps.open.set THEN @ ELSE next]

toggle ==
  IF lProps.disabled THEN SelectState
  ELSE [setOpen(SelectState, ~isOpen) EXCEPT !.active = -1]

\* handleSelect(opt); commitChange stores the value of an uncontrolled Select
handleSelect(opt) ==
  IF opt.disabled THEN SelectState
  ELSE [setOpen([SelectState EXCEPT !.value = opt.value], FALSE)
          EXCEPT !.active = -1]

\* filteredOptions.filter((o) => !o.disabled), nothing being searched
EnabledOptions == SelectSeq(lProps.options, LAMBDA o : ~o.disabled)

Select_handleKeyDown(key) ==
  LET opts == EnabledOptions
      n == Len(opts)
  IN  IF lProps.disabled THEN SelectState
      ELSE IF ~isOpen /\ key \in {"Enter", " "}
        THEN setOpen(SelectState, TRUE)
      ELSE IF key = "Escape"
        THEN [setOpen(SelectState, FALSE) EXCEPT !.active = -1]
      ELSE IF n = 0 THEN SelectState
      ELSE IF ~isOpen /\ key \in {"ArrowDown", "ArrowUp"}
        THEN [setOpen(SelectState, TRUE) EXCEPT !.active = 0]
      ELSE IF key = "ArrowDown"
        THEN [SelectState EXCEPT !.active = (lActive + 1) % n]
      ELSE IF key = "ArrowUp"
        THEN [SelectState EXCEPT
                !.active = IF lActive <= 0 THEN n - 1 ELSE lActive - 1]
      ELSE IF key = "Home" THEN [SelectState EXCEPT !.active = 0]
      ELSE IF key = "End" THEN [SelectState EXCEPT !.active = n - 1]
      ELSE IF lActive \in 0..(n - 1) THEN handleSelect(opts[lActive + 1])
      ELSE SelectState

\* The document's mousedown listener, registered once at the mount: its
\* setOpen is the one of the first render and reads the open of the mount.
OutsideMouseDown ==
  [SelectState EXCEPT
     !.openCalls = <<FALSE>>,
     !.local = IF lMountSet THEN @ ELSE FALSE,
     !.active = -1]

\* The render after a handler or with new props.
SelectCommit(st, p, name, key) ==
  /\ lProps' = p
  /\ lOpenLocal' = st.local
  /\ lActive' = st.active
  /\ lValue' = st.value
  /\ lShown' = isOpenOf(p, st.local)
  /\ lOpenCalls' = st.openCalls
  /\ lEvent' = [name |-> name, key |-> key]
  /\ UNCHANGED lMountSet
  /\ UNCHANGED OtherThan_selectVars

\* A click on the trigger button, rendered with disabled={disabled}.
SelectTriggerClick ==
  /\ ~lProps.disabled
  /\ SelectCommit(toggle, lProps, "click", "none")

SelectKeyDown ==
  /\ ~lProps.disabled
  /\ \E key \in SelectKeys :
       SelectCommit(Select_handleKeyDown(key), lProps, "key", key)

\* A click on an option of the dropdown, rendered while isOpen.
SelectOptionClick ==
  /\ lShown
  /\ \E i \in 1..Len(lProps.options) :
       SelectCommit(handleSelect(lProps.options[i]), lProps, "select", "none")

\* A mousedown outside the Select; the listener stays the one of the mount.
SelectOutsideClick ==
  /\ SelectCommit(OutsideMouseDown, lProps, "outside", "none")
  /\ UNCHANGED lMountSet

\* The parent renders with another open: the state it was told, or its own.
SelectParentSetsOpen ==
  \E o \in {OpenUnset, OpenProp(TRUE), OpenProp(FALSE)} :
    /\ o # lProps.open
    /\ SelectCommit(SelectState, [lProps EXCEPT !.open = o], "render", "none")

InitSelect ==
  /\ IdleCounter
  /\ IdleRender
  /\ IdleSpinner
  /\ IdleCrumb
  /\ IdlePage
  /\ IdleNumber
  /\ IdleCurrency
  /\ IdlePagination
  /\ IdleFile
  /\ IdleDate
  /\ lProps \in SelectProps
  /\ lMountSet = lProps.open.set
  /\ lOpenLocal = FALSE
  /\ lActive = -1
  /\ lValue = 0
  /\ lShown = isOpenOf(lProps, FALSE)
  /\ lOpenCalls = <<>>
  /\ lEvent = [name |-> "mount", key |-> "none"]

NextSelect ==
  \/ SelectTriggerClick
  \/ SelectKeyDown
  \/ SelectOptionClick
  \/ SelectOutsideClick
  \/ SelectParentSetsOpen

SpecSelect == InitSelect /\ [][NextSelect]_vars

\* The state an open/close request asks for: closed after Escape or a
\* selection, otherwise the opposite of what is shown.
RequestedOpen(event) ==
  IF event.name = "select" \/ event.key = "Escape" THEN FALSE
  ELSE ~lProps.open.v

\* C15: with open supplied the dropdown is shown exactly when open is true,
\* and a trigger click, an Enter/Space/Arrow key, Escape or an option
\* selection reports at most the requested state through onOpenChange and
\* leaves the local open state unchanged.
C15_OpenPropControlsDropdown ==
  /\ [](lProps.open.set => lShown = lProps.open.v)
  /\ [][ (lProps.open.set /\ lEvent'.name \in {"click", "key", "select"})
           => /\ lOpenLocal' = lOpenLocal
              /\ lOpenCalls' \in {<<>>, <<RequestedOpen(lEvent')>>} ]_vars

\* A trigger click on a closed Select with open = false asked to open it
\* and left it closed.
C15_Witness ==
  /\ lProps.open = OpenProp(FALSE)
  /\ lEvent.name = "click"
  /\ lOpenCalls = <<TRUE>>
  /\ ~lShown
  /\ ~lOpenLocal

(***************************************************************************)
(*                    DateRangeInput: picking a range                      *)
(***************************************************************************)

\* The calendar shows the days 1..MaxDay; today is day Today.
MaxDay == 8

Today == 3

\* A Date is a day and the milliseconds since its midnight; null is NoDate.
NoDate == [set |-> FALSE, day |-> 0, ms |-> 0]

DateOf(day, ms) == [set |-> TRUE, day |-> day, ms |-> ms]

\* strip(d): the midnight of d
strip(d) == DateOf(d.day, 0)

\* a < b on Dates
DateLt(a, b) == a.day < b.day \/ (a.day = b.day /\ a.ms < b.ms)

\* sameDay(a, b)
sameDay(a, b) == a.set /\ b.set /\ a.day = b.day

\* new Date(): some instant of today
Now == DateOf(Today, 1)

EmptyRange == [startDate |-> NoDate, endDate |-> NoDate]

DateProps ==
  [ min : {NoDate, DateOf(2, 0), DateOf(2, 1)},
    max : {NoDate, DateOf(7, 1)},
    disabledDates : {{}, {4}},
    disabled : BOOLEAN,
    value : {EmptyRange} ]

outOfRange(d) ==
  \/ dProps.min.set /\ DateLt(strip(d), strip(dProps.min))
  \/ dProps.max.set /\ DateLt(strip(dProps.max), strip(d))

isDisabled(d) == d.day \in dProps.disabledDates \/ outOfRange(d)

\* setRange(r): the onChange calls it makes (value has a default, so the
\* component always counts as controlled)
setRange(r) == IF dProps.disabled THEN <<>> ELSE <<r>>

\* pick without its sameDay branch
pickSameDayAsEnd(d) ==
  LET startDate == dProps.value.startDate
      endDate == dProps.value.endDate
  IN  IF isDisabled(d) \/ dProps.disabled THEN <<>>
      ELSE IF ~startDate.set
        THEN setRange([startDate |-> strip(d), endDate |-> NoDate])
      ELSE IF ~endDate.set
        THEN IF DateLt(d, startDate)
               THEN setRange([startDate |-> strip(d), endDate |-> NoDate])
               ELSE setRange([startDate |-> startDate, endDate |-> strip(d)])
      ELSE setRange([startDate |-> strip(d), endDate |-> NoDate])

\* pick(d): the onChange calls it makes
pick(d) ==
  LET startDate == dProps.value.startDate
      endDate == dProps.value.endDate
  IN  IF isDisabled(d) \/ dProps.disabled THEN <<>>
      ELSE IF ~startDate.set
        THEN setRange([startDate |-> strip(d), endDate |-> NoDate])
      ELSE IF ~endDate.set
        THEN IF sameDay(d, startDate) THEN setRange(EmptyRange)
             ELSE IF DateLt(d, startDate)
               THEN setRange([startDate |-> strip(d), endDate |-> NoDate])
             ELSE setRange([startDate |-> startDate, endDate |-> strip(d)])
      ELSE setRange([startDate |-> strip(d), endDate |-> NoDate])

\* An event ran: the consumer stores the range it was handed, if any.
DateHandled(calls, focusDay, open, name) ==
  /\ dCalls' = calls
  /\ dProps' = IF calls = <<>> THEN dProps
               ELSE [dProps EXCEPT !.value = calls[Len(calls)]]
  /\ dFocusDay' = focusDay
  /\ dOpen' = open
  /\ dEvent' = name
  /\ UNCHANGED OtherThan_dateVars

\* The trigger button, rendered with disabled={disabled}.
DateTriggerClick ==
  /\ ~dProps.disabled
  /\ DateHandled(<<>>, dFocusDay, ~dOpen, "trigger")

\* A click on a day of the grid, whose button is disabled for a disabled
\* day and for a disabled input.
DateDayClick ==
  /\ dOpen
  /\ \E day \in 1..MaxDay :
       /\ ~(isDisabled(DateOf(day, 0)) \/ dProps.disabled)
       /\ DateHandled(pick(DateOf(day, 0)), dFocusDay, dOpen, "day")

\* onGridKeyDown: arrows move focusDay by a day or a week, Enter and Space
\* pick it, Escape closes the panel.
DateGridKeyDown ==
  /\ dOpen
  /\ dFocusDay.set
  /\ \/ \E delta \in {-7, -1, 1, 7} :
          /\ dFocusDay.day + delta \in 1..MaxDay
          /\ DateHandled(<<>>, DateOf(dFocusDay.day + delta, dFocusDay.ms),
                         dOpen, "arrow")
     \/ DateHandled(pick(dFocusDay), dFocusDay, dOpen, "enter")
     \/ DateHandled(<<>>, dFocusDay, FALSE, "escape")

\* The "Hoy" button: today = strip(new Date()); setFocusDay(today); pick(today)
DateTodayClick ==
  /\ dOpen
  /\ DateHandled(pick(strip(Now)), strip(Now), dOpen, "today")

\* The "Limpiar" button, rendered while the range has an endpoint.
DateClearClick ==
  /\ dOpen
  /\ dProps.value.startDate.set \/ dProps.value.endDate.set
  /\ DateHandled(setRange(EmptyRange), dFocusDay, dOpen, "clear")

\* The parent renders the input disabled, or enabled again.
DateParentToggles ==
  /\ dProps' = [dProps EXCEPT !.disabled = ~@]
  /\ dCalls' = <<>>
  /\ dEvent' = "render"
  /\ UNCHANGED <<dOpen, dFocusDay>>
  /\ UNCHANGED OtherThan_dateVars

InitDate ==
  /\ IdleCounter
  /\ IdleRender
  /\ IdleSpinner
  /\ IdleCrumb
  /\ IdlePage
  /\ IdleNumber
  /\ IdleCurrency
  /\ IdlePagination
  /\ IdleFile
  /\ IdleSelect
  /\ dProps \in DateProps
  /\ dOpen = FALSE
  /\ dFocusDay = dProps.value.startDate
  /\ dCalls = <<>>
  /\ dEvent = "mount"

NextDate ==
  \/ DateTriggerClick
  \/ DateDayClick
  \/ DateGridKeyDown
  \/ DateTodayClick
  \/ DateClearClick
  \/ DateParentToggles

SpecDate == InitDate /\ [][NextDate]_vars

\* An endpoint is a midnight the props allow.
EndpointOk(d) == d.set => (d.ms = 0 /\ ~isDisabled(d))

\* C16: from the empty range, with a consumer that stores each emitted
\* range, every range emitted by a day click, Enter on the focused day or
\* "Hoy" has: endDate set implies startDate set and strictly earlier; each
\* endpoint is a midnight neither outside [min, max] nor rejected by
\* disabledDates; and nothing is emitted while disabled.
C16_EmittedRangesWellFormed ==
  /\ dProps.disabled => dCalls = <<>>
  /\ \A i \in 1..Len(dCalls) :
       /\ dCalls[i].endDate.set =>
            /\ dCalls[i].startDate.set
            /\ DateLt(dCalls[i].startDate, dCalls[i].endDate)
       /\ EndpointOk(dCalls[i].startDate)
       /\ EndpointOk(dCalls[i].endDate)

\* A day click completed a range.
C16_Witness ==
  /\ dEvent = "day"
  /\ Len(dCalls) = 1
  /\ dCalls[1].endDate.set
  /\ dProps.value = dCalls[1]

====
